---- MODULE Spec2Model ----
(***************************************************************************)
(* Model of the liquidity helper (Raydium / Orca / Meteora back ends and   *)
(* the raydium-liquidity-rs open command): range mathematics, address      *)
(* derivation, liquidity quoting and the instruction plan of one           *)
(* invocation.                                                             *)
(***************************************************************************)
EXTENDS Integers, Sequences, FiniteSets, TLC

VARIABLES
    overflow_checks,  \* the build: TRUE = overflow panics (debug), FALSE = wraps (release)
    call,             \* the pure function last applied, with its inputs
    ret,              \* what it returned
    pc,               \* "idle" between invocations, "done" when one has ended
    opts,             \* the command line of the invocation (cli.rs Opts)
    chain,            \* what the RPC node answers during the invocation
    res               \* the invocation: plan, RPC log, broadcast transactions, outcome

mathvars == <<call, ret>>
runvars == <<pc, opts, chain, res>>
vars == <<overflow_checks, call, ret, pc, opts, chain, res>>

-----------------------------------------------------------------------------
(* Bounds of the model *)

MaxTick == 130
MaxBin == 75

-----------------------------------------------------------------------------
(* Machine integers.  i32 values are kept at their width: an operation     *)
(* whose exact result leaves the i32 range panics when the build checks    *)
(* overflow and wraps modulo 2^32 otherwise.                               *)

I32Max == 2147483647
I32Min == (-I32Max) - 1

Val(v) == [panic |-> FALSE, val |-> v]

\* Rust `/` on integers truncates toward zero (b > 0 here).
RustDiv(a, b) == (a \div b) + (IF a < 0 /\ a % b # 0 THEN 1 ELSE 0)

\* Rust `%` takes the sign of the dividend (b > 0 here).
RustRem(a, b) == IF a < 0 /\ a % b # 0 THEN (a % b) - b ELSE a % b

\* i32::div_euclid with a positive divisor: the floor quotient.
DivEuclid(a, b) == a \div b

\* i32 `a - b` for b > 0: below I32Min it overflows.
SubI32(a, b) ==
    IF a < I32Min + b
    THEN [panic |-> overflow_checks, val |-> I32Max - ((b - (a - I32Min)) - 1)]
    ELSE Val(a - b)

\* i32 `q * s` for s > 0.
MulI32(q, s) ==
    LET lo == RustDiv(I32Min, s)      \* least q with q * s >= I32Min
        hi == I32Max \div s           \* greatest q with q * s <= I32Max
    IN  IF q < lo
        THEN [panic |-> overflow_checks,
              val |-> I32Max + (((lo * s - I32Min) + (q - lo) * s) + 1)]
        ELSE IF q > hi
        THEN [panic |-> overflow_checks,
              val |-> I32Min + (((q - hi) * s - (I32Max - hi * s)) - 1)]
        ELSE Val(q * s)

-----------------------------------------------------------------------------
(* RangeMath *)

TICK_ARRAY_SIZE == 60
BINS_PER_ARRAY == 70

tick_array_start_index_trunc(tick, tick_spacing) ==
    LET size == TICK_ARRAY_SIZE * tick_spacing
    IN  Val(RustDiv(tick, size) * size)

\* raydium.rs: truncating division, then one step down for a negative tick
\* that is not on a boundary.
tick_array_start_index(tick, tick_spacing) ==
    LET size == TICK_ARRAY_SIZE * tick_spacing
        start == RustDiv(tick, size) * size
    IN  IF tick < 0 /\ RustRem(tick, size) # 0
        THEN SubI32(start, size)
        ELSE Val(start)

tick_array_start_trunc(tick, tick_spacing) ==
    LET span == 60 * tick_spacing
    IN  Val(RustDiv(tick, span) * span)

\* pool.rs: (tick.div_euclid(span)) * span
tick_array_start(tick, tick_spacing) ==
    LET span == 60 * tick_spacing
    IN  MulI32(DivEuclid(tick, span), span)

bin_array_index_trunc(bin_id) == RustDiv(bin_id, BINS_PER_ARRAY)

\* meteora.rs: computed in i64, so no i32 input overflows.
bin_array_index_for_bin_id(bin_id) ==
    LET per == BINS_PER_ARRAY
        id == bin_id
    IN  IF id >= 0 THEN RustDiv(id, per) ELSE RustDiv(id - (per - 1), per)

-----------------------------------------------------------------------------
(* AddressDerivation.  Pubkey::find_program_address hashes the             *)
(* concatenation of the seeds with the program id; the hash is taken to be *)
(* collision free, so an address is the pair (concatenated seed bytes,     *)
(* program).  A seed string or a 32-byte key is one token of the byte      *)
(* sequence; an integer seed is spelt out byte by byte.                    *)

RECURSIVE to_le_bytes(_, _)
\* two's complement little-endian bytes of n, k bytes wide
to_le_bytes(n, k) ==
    IF k = 0 THEN <<>> ELSE <<n % 256>> \o to_le_bytes(n \div 256, k - 1)

RECURSIVE to_be_bytes(_, _)
to_be_bytes(n, k) ==
    IF k = 0 THEN <<>> ELSE to_be_bytes(n \div 256, k - 1) \o <<n % 256>>

find_program_address(seeds, program_id) ==
    [seeds |-> seeds, program |-> program_id]

LB_CLMM_ID == "LB_CLMM"
CLMM_PROGRAM_ID == "RAYDIUM_CLMM"
WHIRLPOOL_PROGRAM_ID == "ORCA_WHIRLPOOL"

derive_bin_array_address_byte(program_id, lb_pair, index) ==
    find_program_address(<<"bin_array", lb_pair>> \o to_le_bytes(index, 1), program_id)

\* meteora.rs: seeds ["bin_array", lb_pair, index as 8 LE bytes]
derive_bin_array_address(program_id, lb_pair, index) ==
    find_program_address(<<"bin_array", lb_pair>> \o to_le_bytes(index, 8), program_id)

\* raydium.rs: seeds [TICK_ARRAY_SEED, pool, start_index as 4 BE bytes]
derive_tick_array_pda(pool, start_index, program_id) ==
    find_program_address(<<"tick_array", pool>> \o to_be_bytes(start_index, 4), program_id)

\* open_cmd.rs: seeds ["tick_array", pool, start as 4 LE bytes]
tick_array_pda(pool, start, program_id) ==
    find_program_address(<<"tick_array", pool>> \o to_le_bytes(start, 4), program_id)

-----------------------------------------------------------------------------
(* The pure functions applied to inputs drawn from bounded sets. *)

Ticks ==
    (-MaxTick .. MaxTick)
    \cup {I32Min, I32Min + 1, I32Min + 7, I32Min + 8, I32Min + 59, I32Min + 60,
          I32Max - 60, I32Max - 1, I32Max}

Spacings == {1, 2, 60}

RangeTicks == {t \in -MaxTick .. MaxTick : t % 10 = 0}

BinIds == (-MaxBin .. MaxBin) \cup {17849, 17850, 17919, 17920}

Pools == {"poolA", "poolB"}

NoCall == [fn |-> "none"]

NoRun == [status |-> "none"]

InitMath ==
    /\ overflow_checks \in BOOLEAN
    /\ call = NoCall
    /\ ret = NoCall
    /\ pc = "idle" /\ opts = NoRun /\ chain = NoRun /\ res = NoRun

\* Both group-start implementations on the same tick and spacing.
CallGroupStart ==
    /\ call = NoCall
    /\ \E tick \in Ticks, sp \in Spacings :
        /\ call' = [fn |-> "group_start", tick |-> tick, spacing |-> sp, again |-> FALSE]
        /\ ret' = [raydium |-> tick_array_start_index(tick, sp),
                   pool |-> tick_array_start(tick, sp)]
        /\ UNCHANGED <<overflow_checks, runvars>>

\* Each implementation applied to its own previous result.
ReapplyGroupStart ==
    /\ call.fn = "group_start"
    /\ ~call.again
    /\ ~ret.raydium.panic /\ ~ret.pool.panic
    /\ call' = [call EXCEPT !.again = TRUE]
    /\ ret' = [raydium |-> tick_array_start_index(ret.raydium.val, call.spacing),
               pool |-> tick_array_start(ret.pool.val, call.spacing),
               prev |-> ret]
    /\ UNCHANGED <<overflow_checks, runvars>>

\* The group starts of the two ends of a range, as the open paths compute
\* them (raydium.rs 741-742, open_cmd.rs 70-71).
CallRangeStarts ==
    /\ call = NoCall
    /\ \E lower \in RangeTicks, upper \in RangeTicks, sp \in Spacings :
        /\ lower < upper
        /\ call' = [fn |-> "range_starts", lower |-> lower, upper |-> upper,
                    spacing |-> sp]
        /\ ret' = [lower_r |-> tick_array_start_index(lower, sp),
                   upper_r |-> tick_array_start_index(upper, sp),
                   lower_p |-> tick_array_start(lower, sp),
                   upper_p |-> tick_array_start(upper, sp)]
        /\ UNCHANGED <<overflow_checks, runvars>>

CallBinArrayIndex ==
    /\ call = NoCall
    /\ \E b \in BinIds :
        /\ call' = [fn |-> "bin_array_index_for_bin_id", bin_id |-> b]
        /\ ret' = bin_array_index_for_bin_id(b)
        /\ UNCHANGED <<overflow_checks, runvars>>

\* The bin-array address derived from two bin ids of the same pair.
CallDeriveBinArray ==
    /\ call = NoCall
    /\ \E b1 \in BinIds, b2 \in BinIds, pair \in Pools :
        /\ call' = [fn |-> "derive_bin_array_address", lb_pair |-> pair,
                    bin_id |-> b1, bin_id2 |-> b2]
        /\ ret' = [a1 |-> derive_bin_array_address(LB_CLMM_ID, pair,
                                                   bin_array_index_for_bin_id(b1)),
                   a2 |-> derive_bin_array_address(LB_CLMM_ID, pair,
                                                   bin_array_index_for_bin_id(b2))]
        /\ UNCHANGED <<overflow_checks, runvars>>

\* Tick-array start indices: the multiples of 60 among the modelled ticks
\* and one pair of starts of a spacing-60 pool.
StartIndexes == {s \in -MaxTick .. MaxTick : s % TICK_ARRAY_SIZE = 0} \cup {-3600, 3600}

\* Both tick-array address derivations on the same pool, start index and
\* program.
CallTickArrayPda ==
    /\ call = NoCall
    /\ \E pool \in Pools, start \in StartIndexes :
        /\ call' = [fn |-> "tick_array_pda", pool |-> pool, start |-> start]
        /\ ret' = [raydium |-> derive_tick_array_pda(pool, start, CLMM_PROGRAM_ID),
                   open_cmd |-> tick_array_pda(pool, start, CLMM_PROGRAM_ID)]
        /\ UNCHANGED <<overflow_checks, runvars>>

\* The call returns; the next one starts from fresh inputs.
ReturnMath ==
    /\ call # NoCall
    /\ call' = NoCall
    /\ ret' = NoCall
    /\ UNCHANGED <<overflow_checks, runvars>>

NextMath ==
    \/ CallGroupStart
    \/ ReapplyGroupStart
    \/ CallRangeStarts
    \/ CallBinArrayIndex
    \/ CallDeriveBinArray
    \/ CallTickArrayPda
    \/ ReturnMath

SpecMath == InitMath /\ [][NextMath]_vars

-----------------------------------------------------------------------------
(* Claims about RangeMath and AddressDerivation (under SpecMath) *)

Span(sp) == TICK_ARRAY_SIZE * sp

\* g is the multiple of span with g <= i < g + span (written so that no
\* intermediate value leaves the i32 range).
IsGroupStart(g, i, span) ==
    /\ g % span = 0
    /\ g <= i
    /\ (i < 0 \/ g >= 0)
    /\ i - g < span

\* The multiple of span at or below i is itself an i32.
FloorRepresentable(i, span) == i >= I32Min + (i % span)

\* C1 as stated: for every tick and spacing both implementations return the
\* multiple g of span with g <= i < g + span, each maps its own result to
\* itself, and the two agree.
C1_Original ==
    call.fn = "group_start" =>
        /\ ~ret.raydium.panic /\ ~ret.pool.panic
        /\ ret.raydium = ret.pool
        /\ IF call.again
           THEN ret.raydium = ret.prev.raydium /\ ret.pool = ret.prev.pool
           ELSE /\ IsGroupStart(ret.raydium.val, call.tick, Span(call.spacing))
                /\ IsGroupStart(ret.pool.val, call.tick, Span(call.spacing))

\* C1 amended: the same for every tick whose enclosing multiple of span is
\* at least i32::MIN; on the remaining ticks (fewer than span of them, at
\* the bottom of the i32 range) both implementations overflow alike.  The two
\* implementations return the same outcome on every input.
C1_GroupStart ==
    call.fn = "group_start" =>
        /\ ret.raydium = ret.pool
        /\ IF call.again
           THEN FloorRepresentable(call.tick, Span(call.spacing)) =>
                    /\ ~ret.raydium.panic /\ ~ret.pool.panic
                    /\ ret.raydium = ret.prev.raydium /\ ret.pool = ret.prev.pool
           ELSE IF FloorRepresentable(call.tick, Span(call.spacing))
           THEN /\ ~ret.raydium.panic /\ ~ret.pool.panic
                /\ IsGroupStart(ret.raydium.val, call.tick, Span(call.spacing))
                /\ IsGroupStart(ret.pool.val, call.tick, Span(call.spacing))
           ELSE /\ ret.raydium.panic = overflow_checks
                /\ ret.raydium.val > call.tick

C1_Witness ==
    /\ call.fn = "group_start"
    /\ call.again
    /\ call.tick = -1 /\ call.spacing = 1
    /\ ret.prev.raydium = Val(-60) /\ ret.raydium = Val(-60)
    /\ ret.pool = Val(-60)

\* C2: bin_array_index_for_bin_id(b) is the k with 70*k <= b < 70*(k+1);
\* b = -1 maps to group -1.
C2_BinArrayIndexIsFloor ==
    call.fn = "bin_array_index_for_bin_id" =>
        /\ BINS_PER_ARRAY * ret <= call.bin_id
        /\ call.bin_id < BINS_PER_ARRAY * (ret + 1)
        /\ (call.bin_id = -1 => ret = -1)

C2_Witness ==
    /\ call.fn = "bin_array_index_for_bin_id"
    /\ call.bin_id = -1
    /\ ret = -1

\* C5 as stated: span 60, bounds [-120, 120]: the group starts are -120 and
\* 60 (read with granularity as the span, or as the tick spacing).
C5_Original ==
    (/\ call.fn = "range_starts"
     /\ call.lower = -120 /\ call.upper = 120
     /\ call.spacing \in {1, 60}) =>
        /\ ret.lower_r = Val(-120) /\ ret.upper_r = Val(60)
        /\ ret.lower_p = Val(-120) /\ ret.upper_p = Val(60)

\* C5 amended: with a span of 60 (tick spacing 1) and bounds [-120, 120] the
\* group starts are -120 and 120 (120 is itself a multiple of 60); with a
\* tick spacing of 60 (span 3600) they are -3600 and 0.  Either way they are
\* distinct.
C5_ScenarioStarts ==
    (/\ call.fn = "range_starts"
     /\ call.lower = -120 /\ call.upper = 120) =>
        /\ ret.lower_r = ret.lower_p /\ ret.upper_r = ret.upper_p
        /\ ret.lower_r # ret.upper_r
        /\ (call.spacing = 1 =>
              ret.lower_r = Val(-120) /\ ret.upper_r = Val(120))
        /\ (call.spacing = 60 =>
              ret.lower_r = Val(-3600) /\ ret.upper_r = Val(0))

C5_Witness ==
    /\ call.fn = "range_starts"
    /\ call.lower = -120 /\ call.upper = 120 /\ call.spacing = 1
    /\ ret.lower_p = Val(-120) /\ ret.upper_p = Val(120)

\* C6: two bin ids of the same pair derive the same bin-array address
\* exactly when they lie in the same group of 70 bins.
C6_SameGroupSameAddress ==
    call.fn = "derive_bin_array_address" =>
        ((call.bin_id \div BINS_PER_ARRAY = call.bin_id2 \div BINS_PER_ARRAY)
            <=> (ret.a1 = ret.a2))

C6_Witness ==
    /\ call.fn = "derive_bin_array_address"
    /\ call.bin_id = -70 /\ call.bin_id2 = -1
    /\ ret.a1 = ret.a2
    /\ ret.a1.seeds = <<"bin_array", call.lb_pair, 255, 255, 255, 255, 255, 255, 255, 255>>

-----------------------------------------------------------------------------
(* One invocation of the command line tool.                                *)
(*                                                                         *)
(* res is the invocation as it unfolds: ixs the instruction plan, log the  *)
(* RPC calls in order, sent the transactions broadcast, status/err the     *)
(* outcome.  chain holds the answers of the RPC node; opts the options.    *)

None == "none"
Some(v) == <<v>>
IsSome(x) == x # <<>>
Unwrap(x) == x[1]

PAYER == "payer"
SPL_TOKEN == "spl_token"
SPL_TOKEN_2022 == "spl_token_2022"
WSOL_MINT == "wsol_mint"
Unfetchable == "unfetchable"

\* The record of one invocation: the instruction plan being assembled, the
\* node interactions in order, the transactions sent, and how it ended.
\* Every step below leaves a record that has already ended as it is, which
\* is how `?` and bail! leave the handler.
Begin(ixs) == [ixs |-> ixs, log |-> <<>>, sent |-> <<>>, status |-> "run", err |-> ""]
Running(r) == r.status = "run"
Bail(r, msg) == IF Running(r) THEN [r EXCEPT !.status = "error", !.err = msg] ELSE r
BailIf(r, cond, msg) == IF Running(r) /\ cond THEN Bail(r, msg) ELSE r
Panic(r, msg) == IF Running(r) THEN [r EXCEPT !.status = "panic", !.err = msg] ELSE r
PanicIf(r, cond, msg) == IF Running(r) /\ cond THEN Panic(r, msg) ELSE r
Finish(r) == IF Running(r) THEN [r EXCEPT !.status = "ok"] ELSE r
Rpc(r, what) ==
    IF Running(r) THEN [r EXCEPT !.log = Append(@, [ev |-> "read", what |-> what])] ELSE r
Push(r, ix) == IF Running(r) THEN [r EXCEPT !.ixs = Append(@, ix)] ELSE r
PushIf(r, cond, ix) == IF Running(r) /\ cond THEN Push(r, ix) ELSE r

\* Pubkey::from_str: the model's only malformed key is "invalid".
ValidKey(str) == str # "invalid"

get_associated_token_address(owner, mint, token_program) ==
    [ata_owner |-> owner, mint |-> mint, token_program |-> token_program]

create_associated_token_account(owner, mint, token_program) ==
    [kind |-> "CreateAssociatedTokenAccount",
     ata |-> get_associated_token_address(owner, mint, token_program)]

ComputeBudgetIxs(o) ==
    << [kind |-> "SetComputeUnitLimit", units |-> o.cu_limit],
       [kind |-> "SetComputeUnitPrice", price |-> o.cu_price] >>

-----------------------------------------------------------------------------
(* tx.rs *)

simulate_and_send_unchecked(r, ixs, signers, c) ==
    LET tx == [ixs |-> ixs, signers |-> signers]
        r1 == Rpc(r, "get_latest_blockhash")
        r2 == [r1 EXCEPT !.log = Append(@, [ev |-> "simulate", tx |-> tx])]
    IN  IF ~Running(r) THEN r
        ELSE [r2 EXCEPT !.log = Append(@, [ev |-> "send", tx |-> tx]),
                        !.sent = Append(@, tx)]

\* simulate_and_send: blockhash, sign, simulate; a simulation error ends
\* the call, otherwise the same transaction is sent.  The node answers each
\* submission of an invocation separately: c.sim_ok[nth].
simulate_and_send(r, ixs, signers, c) ==
    LET nth == Len(SelectSeq(r.log, LAMBDA e : e.ev = "simulate")) + 1
        tx == [ixs |-> ixs, signers |-> signers]
        r1 == Rpc(r, "get_latest_blockhash")
        r2 == [r1 EXCEPT !.log = Append(@, [ev |-> "simulate", tx |-> tx])]
    IN  IF ~Running(r) THEN r
        ELSE IF ~c.sim_ok[nth] THEN Bail(r2, "simulation failed")
        ELSE [r2 EXCEPT !.log = Append(@, [ev |-> "send", tx |-> tx]),
                        !.sent = Append(@, tx)]

\* build_wrap_sol_ixs: create the WSOL ATA if it is missing, transfer,
\* sync_native.
build_wrap_sol_ixs(payer, amount, c) ==
    LET ata == get_associated_token_address(payer, WSOL_MINT, SPL_TOKEN)
    IN  (IF c.wsol_ata_exists THEN <<>>
         ELSE <<create_associated_token_account(payer, WSOL_MINT, SPL_TOKEN)>>)
        \o << [kind |-> "SystemTransfer", to |-> ata, lamports |-> amount],
              [kind |-> "SyncNative", account |-> ata] >>

build_unwrap_sol_ix(payer) ==
    [kind |-> "CloseAccount",
     account |-> get_associated_token_address(payer, WSOL_MINT, SPL_TOKEN)]

\* The head of every run(): the two compute-budget instructions, then the
\* wrap instructions when --wrap-sol > 0.
RunPrologue(o, c) ==
    LET r0 == Begin(ComputeBudgetIxs(o))
    IN  IF o.wrap_sol > 0
        THEN [Rpc(r0, "get_account:wsol_ata")
                EXCEPT !.ixs = @ \o build_wrap_sol_ixs(PAYER, o.wrap_sol, c)]
        ELSE r0

\* The node's answer to an existence read of a token account: the read
\* fails (<<>>), or it reports whether the account exists.
AtaAnswer(c, exists) == IF c.ata_read_ok THEN Some(exists) ELSE <<>>

\* The existence read of one token account, logged with its address.
RpcAta(r, ata) ==
    IF Running(r)
    THEN [r EXCEPT !.log = Append(@, [ev |-> "read", what |-> "get_account:ata",
                                      ata |-> ata])]
    ELSE r

ensure_ata_always(r, owner, mint, token_program, answer) ==
    Push(RpcAta(r, get_associated_token_address(owner, mint, token_program)),
         create_associated_token_account(owner, mint, token_program))

\* ensure_ata (orca.rs, meteora.rs) and the inline equivalent in raydium.rs:
\* one existence read, whose failure ends the handler; a creation
\* instruction is appended when the account is missing.
ensure_ata(r, owner, mint, token_program, answer) ==
    LET ata == get_associated_token_address(owner, mint, token_program)
        r1 == BailIf(RpcAta(r, ata), answer = <<>>, "fetch token account")
    IN  PushIf(r1, answer = Some(FALSE),
               create_associated_token_account(owner, mint, token_program))

\* detect_token_program_for_mint (orca.rs, meteora.rs): Token-2022 if the
\* mint's owner is Token-2022, else SPL Token.
detect_token_program_for_mint(mint_owner) ==
    IF mint_owner = SPL_TOKEN_2022 THEN SPL_TOKEN_2022 ELSE SPL_TOKEN

\* The two detect_token_program_for_mint calls of a handler: each reads the
\* mint account, and a failed read ends the handler.
detect_mints(r, c) ==
    LET r1 == BailIf(Rpc(r, "get_account:mint0"), c.mint_owner0 = Unfetchable, "fetch mint")
    IN  BailIf(Rpc(r1, "get_account:mint1"), c.mint_owner1 = Unfetchable, "fetch mint")

-----------------------------------------------------------------------------
(* meteora.rs *)

\* (req_upper - req_lower + 1) in i32, for req_upper >= req_lower.
meteora_width(req_lower, req_upper) ==
    IF req_lower <= 0 /\ req_upper >= I32Max + req_lower
    THEN [panic |-> overflow_checks,
          val |-> (req_upper - I32Max) + (I32Min - req_lower)]
    ELSE Val(req_upper - req_lower + 1)

meteora_bin_array_indices_same(lower, upper) ==
    <<bin_array_index_for_bin_id(lower), bin_array_index_for_bin_id(upper)>>

\* The bin-array indices of the two ends of a range; when both ends fall
\* into the same bin array the upper index is nudged to the next one.
meteora_bin_array_indices(lower, upper) ==
    LET bin_array_lower_index == bin_array_index_for_bin_id(lower)
        bin_array_upper_index == bin_array_index_for_bin_id(upper)
    IN  IF bin_array_lower_index = bin_array_upper_index
        THEN <<bin_array_lower_index, bin_array_lower_index + 1>>
        ELSE <<bin_array_lower_index, bin_array_upper_index>>

uniform_distribution_ceil(width, amount_x, amount_y) ==
    IF amount_x > 0 \/ amount_y > 0 THEN ((10000 + width - 1) \div width) % 65536 ELSE 0

\* uniform_distribution, for width > 0 (width = 0 is an error, handled by
\* the caller): 10_000 / width, cast to u16, when some amount is nonzero.
uniform_distribution(width, amount_x, amount_y) ==
    IF amount_x > 0 \/ amount_y > 0 THEN (10000 \div width) % 65536 ELSE 0

\* for bin_id in req_lower..=req_upper { dists.push(..) }
meteora_dists(req_lower, req_upper, share, amount0, amount1) ==
    [i \in 1 .. (req_upper - req_lower + 1) |->
        [bin_id |-> req_lower + (i - 1),
         distribution_x |-> IF amount0 > 0 THEN share ELSE 0,
         distribution_y |-> IF amount1 > 0 THEN share ELSE 0]]

meteora_init_position_nudged(lb_pair, req_lower, width) ==
    [kind |-> "InitializePosition", position |-> "new_position",
     lb_pair |-> lb_pair, lower_bin_id |-> req_lower, width |-> width + 1]

meteora_init_position(lb_pair, req_lower, width) ==
    [kind |-> "InitializePosition", position |-> "new_position",
     lb_pair |-> lb_pair, lower_bin_id |-> req_lower, width |-> width]

meteora_handle_open(o, c, r0) ==
    LET req_lower == Unwrap(o.lower)
        req_upper == Unwrap(o.upper)
        r1 == BailIf(r0, ~ValidKey(o.pool), "invalid --pool")
        r2 == BailIf(r1, ~IsSome(o.lower), "missing --lower")
        r3 == BailIf(r2, ~IsSome(o.upper), "missing --upper")
        r4 == BailIf(r3, req_upper < req_lower, "upper must be >= lower")
        r5 == BailIf(r4, o.amount0 = 0 /\ o.amount1 = 0, "specify amounts")
        w == meteora_width(req_lower, req_upper)
        r6 == PanicIf(r5, w.panic, "attempt to add with overflow")
        r7 == BailIf(Rpc(r6, "get_account:pool"), ~c.pool_decodes, "decode LbPair")
        token_x_program == detect_token_program_for_mint(c.mint_owner0)
        token_y_program == detect_token_program_for_mint(c.mint_owner1)
        r8 == detect_mints(r7, c)
        r9 == ensure_ata(r8, PAYER, c.mint0, token_x_program, AtaAnswer(c, c.ata0_exists))
        r10 == ensure_ata(r9, PAYER, c.mint1, token_y_program, AtaAnswer(c, c.ata1_exists))
        idx == meteora_bin_array_indices(req_lower, req_upper)
        r11 == Push(r10, meteora_init_position(o.pool, req_lower, w.val))
        r12 == BailIf(r11, w.val = 0, "width must be > 0")
        r13 == PanicIf(r12, w.val < 0, "capacity overflow")
        share == uniform_distribution(w.val, o.amount0, o.amount1)
        add_ix ==
            [kind |-> "AddLiquidity", position |-> "new_position",
             lb_pair |-> o.pool,
             user_token_x |-> get_associated_token_address(PAYER, c.mint0, token_x_program),
             user_token_y |-> get_associated_token_address(PAYER, c.mint1, token_y_program),
             group_lower |-> derive_bin_array_address(LB_CLMM_ID, o.pool, idx[1]),
             group_upper |-> derive_bin_array_address(LB_CLMM_ID, o.pool, idx[2]),
             amount_x |-> o.amount0, amount_y |-> o.amount1,
             bin_liquidity_dist |->
                meteora_dists(req_lower, req_upper, share, o.amount0, o.amount1)]
        r14 == Push(r13, add_ix)
    IN  Finish(simulate_and_send(r14, r14.ixs, {PAYER, "new_position"}, c))

\* handle_remove_all appends to the plan; run() submits it.
meteora_handle_remove_all(o, c, r0) ==
    LET r1 == BailIf(r0, ~ValidKey(o.remove_position), "invalid --remove-position")
        r2 == BailIf(Rpc(r1, "get_account:position"), ~c.pos_decodes, "decode Position")
        r3 == BailIf(Rpc(r2, "get_account:pool"), ~c.pool_decodes, "decode LbPair")
        token_x_program == detect_token_program_for_mint(c.mint_owner0)
        token_y_program == detect_token_program_for_mint(c.mint_owner1)
        r4 == detect_mints(r3, c)
        r5 == ensure_ata(r4, PAYER, c.mint0, token_x_program, AtaAnswer(c, c.ata0_exists))
        r6 == ensure_ata(r5, PAYER, c.mint1, token_y_program, AtaAnswer(c, c.ata1_exists))
        idx == meteora_bin_array_indices(c.pos_lower, c.pos_upper)
        remove_ix ==
            [kind |-> "RemoveAllLiquidity", position |-> o.remove_position,
             lb_pair |-> c.pos_pool,
             user_token_x |-> get_associated_token_address(PAYER, c.mint0, token_x_program),
             user_token_y |-> get_associated_token_address(PAYER, c.mint1, token_y_program),
             group_lower |-> derive_bin_array_address(LB_CLMM_ID, c.pos_pool, idx[1]),
             group_upper |-> derive_bin_array_address(LB_CLMM_ID, c.pos_pool, idx[2])]
        r7 == Push(r6, remove_ix)
    IN  PushIf(r7, o.close,
               [kind |-> "ClosePositionIfEmpty", position |-> o.remove_position])

\* A window of three bin arrays around the active bin.
meteora_swap_window(active_id) ==
    << bin_array_index_for_bin_id(active_id),
       bin_array_index_for_bin_id(active_id + BINS_PER_ARRAY),
       bin_array_index_for_bin_id(active_id - BINS_PER_ARRAY) >>

meteora_handle_swap(o, c, r0) ==
    LET r1 == BailIf(r0, o.swap_amount_in = 0, "--swap-amount-in must be > 0")
        r2 == BailIf(r1, ~ValidKey(o.swap_pool), "invalid --swap-pool")
        r3 == BailIf(Rpc(r2, "get_account:pool"), ~c.pool_decodes, "decode LbPair")
        token_x_program == detect_token_program_for_mint(c.mint_owner0)
        token_y_program == detect_token_program_for_mint(c.mint_owner1)
        r4 == detect_mints(r3, c)
        r5 == ensure_ata(r4, PAYER, c.mint0, token_x_program, AtaAnswer(c, c.ata0_exists))
        r6 == ensure_ata(r5, PAYER, c.mint1, token_y_program, AtaAnswer(c, c.ata1_exists))
        user_token_x == get_associated_token_address(PAYER, c.mint0, token_x_program)
        user_token_y == get_associated_token_address(PAYER, c.mint1, token_y_program)
        indices == meteora_swap_window(c.active_id)
    IN  Push(r6, [kind |-> "Swap", lb_pair |-> o.swap_pool,
                  user_token_in |-> IF o.swap_a_to_b THEN user_token_x ELSE user_token_y,
                  user_token_out |-> IF o.swap_a_to_b THEN user_token_y ELSE user_token_x,
                  amount_in |-> o.swap_amount_in,
                  min_amount_out |-> o.swap_min_out,
                  groups |-> [i \in 1 .. 3 |->
                      derive_bin_array_address(LB_CLMM_ID, o.swap_pool, indices[i])]])

meteora_run(o, c) ==
    LET r0 == RunPrologue(o, c)
        r1 == IF o.swap_pool # None THEN meteora_handle_swap(o, c, r0)
              ELSE IF o.remove_position # None THEN meteora_handle_remove_all(o, c, r0)
              ELSE r0
        r2 == PushIf(r1, o.unwrap_sol, build_unwrap_sol_ix(PAYER))
    IN  IF o.swap_pool = None /\ o.remove_position = None /\ o.pool # None
        THEN meteora_handle_open(o, c, r0)
        ELSE IF ~Running(r2) THEN r2
        ELSE IF Len(r2.ixs) > 2 \/ o.unwrap_sol
        THEN Finish(simulate_and_send(r2, r2.ixs, {PAYER}, c))
        ELSE Bail(r2, "provide swap/open/remove args or wrap/unwrap flags")

-----------------------------------------------------------------------------
(* Fixed-point price arithmetic of the protocol libraries, at reduced scale.
   Q64 stands for 2^64 (the fixed-point one) and TickLimit for MAX_TICK; the
   sqrt price of a tick is strictly increasing in the tick and equals Q64
   at tick 0. *)

Q64 == 128
TickLimit == 90

Min(a, b) == IF a < b THEN a ELSE b
mul_div_floor(a, b, c) == (a * b) \div c

\* r_libs::tick_math::get_sqrt_price_at_tick: an error outside
\* [-MAX_TICK, MAX_TICK].
get_sqrt_price_at_tick(tick) ==
    IF tick < -TickLimit \/ tick > TickLimit
    THEN [ok |-> FALSE, val |-> 0]
    ELSE [ok |-> TRUE, val |-> Q64 + tick]

\* r_libs::liquidity_math
get_liquidity_from_amount_0(sqrt_a, sqrt_b, amount_0) ==
    LET lo == Min(sqrt_a, sqrt_b)
        hi == IF sqrt_a < sqrt_b THEN sqrt_b ELSE sqrt_a
    IN  mul_div_floor(amount_0, mul_div_floor(lo, hi, Q64), hi - lo)

get_liquidity_from_amount_1(sqrt_a, sqrt_b, amount_1) ==
    LET lo == Min(sqrt_a, sqrt_b)
        hi == IF sqrt_a < sqrt_b THEN sqrt_b ELSE sqrt_a
    IN  mul_div_floor(amount_1, Q64, hi - lo)

get_liquidity_from_amounts(cur, sqrt_a, sqrt_b, amount_0, amount_1) ==
    IF cur <= sqrt_a THEN get_liquidity_from_amount_0(sqrt_a, sqrt_b, amount_0)
    ELSE IF cur < sqrt_b
    THEN Min(get_liquidity_from_amount_0(cur, sqrt_b, amount_0),
             get_liquidity_from_amount_1(sqrt_a, cur, amount_1))
    ELSE get_liquidity_from_amount_1(sqrt_a, sqrt_b, amount_1)

get_liquidity_from_single_amount_0(cur, sqrt_a, sqrt_b, amount_0) ==
    IF cur <= sqrt_a THEN get_liquidity_from_amount_0(sqrt_a, sqrt_b, amount_0)
    ELSE IF cur < sqrt_b THEN get_liquidity_from_amount_0(cur, sqrt_b, amount_0)
    ELSE 0

get_liquidity_from_single_amount_1(cur, sqrt_a, sqrt_b, amount_1) ==
    IF cur <= sqrt_a THEN 0
    ELSE IF cur < sqrt_b THEN get_liquidity_from_amount_1(sqrt_a, cur, amount_1)
    ELSE get_liquidity_from_amount_1(sqrt_a, sqrt_b, amount_1)

-----------------------------------------------------------------------------
(* raydium.rs *)

\* The token program chosen for a mint in raydium.rs: an unfetchable mint
\* defaults to SPL Token; any owner other than SPL Token means Token-2022.
raydium_token_program(mint_owner) ==
    IF mint_owner = Unfetchable \/ mint_owner = SPL_TOKEN
    THEN SPL_TOKEN ELSE SPL_TOKEN_2022

raydium_ensure_atas(r, c) ==
    LET token_program0 == raydium_token_program(c.mint_owner0)
        token_program1 == raydium_token_program(c.mint_owner1)
        r1 == Rpc(Rpc(r, "get_account:mint0"), "get_account:mint1")
        r2 == ensure_ata(r1, PAYER, c.mint0, token_program0, AtaAnswer(c, c.ata0_exists))
    IN  ensure_ata(r2, PAYER, c.mint1, token_program1, AtaAnswer(c, c.ata1_exists))

Quote(liquidity) == [err |-> "", liquidity |-> liquidity]
QuoteErr(msg) == [err |-> msg, liquidity |-> 0]

raydium_quote_unguarded(amount0, amount1, sqrt_ratio_x64, sqrt_lo, sqrt_hi) ==
    IF amount0 > 0 /\ amount1 = 0
    THEN Quote(get_liquidity_from_single_amount_0(sqrt_ratio_x64, sqrt_lo, sqrt_hi, amount0))
    ELSE IF amount1 > 0 /\ amount0 = 0
    THEN Quote(get_liquidity_from_single_amount_1(sqrt_ratio_x64, sqrt_lo, sqrt_hi, amount1))
    ELSE Quote(get_liquidity_from_amounts(sqrt_ratio_x64, sqrt_lo, sqrt_hi, amount0, amount1))

\* The liquidity computation of handle_open, with its two directional
\* failures.
raydium_quote(amount0, amount1, sqrt_ratio_x64, sqrt_lo, sqrt_hi) ==
    IF amount0 > 0 /\ amount1 = 0
    THEN IF sqrt_ratio_x64 >= sqrt_hi
         THEN QuoteErr("price ABOVE the range; token0-only cannot open here")
         ELSE Quote(get_liquidity_from_single_amount_0(sqrt_ratio_x64, sqrt_lo, sqrt_hi, amount0))
    ELSE IF amount1 > 0 /\ amount0 = 0
    THEN IF sqrt_ratio_x64 <= sqrt_lo
         THEN QuoteErr("price BELOW the range; token1-only cannot open here")
         ELSE Quote(get_liquidity_from_single_amount_1(sqrt_ratio_x64, sqrt_lo, sqrt_hi, amount1))
    ELSE Quote(get_liquidity_from_amounts(sqrt_ratio_x64, sqrt_lo, sqrt_hi, amount0, amount1))

\* After the main transaction, --unwrap-sol is a second transaction of its
\* own.
raydium_unwrap_after(r, o, c) ==
    IF o.unwrap_sol
    THEN simulate_and_send(r, <<build_unwrap_sol_ix(PAYER)>>, {PAYER}, c)
    ELSE r

raydium_handle_open(o, c, r0) ==
    LET lower == Unwrap(o.lower)
        upper == Unwrap(o.upper)
        r1 == BailIf(r0, ~ValidKey(o.pool), "invalid pool id")
        r2 == BailIf(r1, ~IsSome(o.lower), "missing --lower")
        r3 == BailIf(r2, ~IsSome(o.upper), "missing --upper")
        r4 == BailIf(r3, upper <= lower, "upper tick must be > lower tick")
        r5 == BailIf(r4, o.amount0 = 0 /\ o.amount1 = 0, "provide at least one non-zero amount")
        r6 == BailIf(Rpc(r5, "get_account:pool"), ~c.pool_owner_ok, "pool account owner mismatch")
        r7 == BailIf(r6, ~c.pool_decodes, "decode pool via raydium_clmm")
        tick_spacing == c.tick_spacing
        r8 == BailIf(r7, RustRem(lower, tick_spacing) # 0 \/ RustRem(upper, tick_spacing) # 0,
                     "ticks must be multiples of pool.tick_spacing")
        token_program0 == raydium_token_program(c.mint_owner0)
        token_program1 == raydium_token_program(c.mint_owner1)
        r9 == raydium_ensure_atas(r8, c)
        r10 == Rpc(Rpc(r9, "get_account:ata"), "get_account:ata")
        lower_start == tick_array_start_index(lower, tick_spacing)
        upper_start == tick_array_start_index(upper, tick_spacing)
        r11 == PanicIf(r10, lower_start.panic \/ upper_start.panic,
                       "attempt to subtract with overflow")
        sqrt_a_x64 == get_sqrt_price_at_tick(lower)
        sqrt_b_x64 == get_sqrt_price_at_tick(upper)
        r12 == BailIf(r11, ~sqrt_a_x64.ok, "sqrt_at_tick lower")
        r13 == BailIf(r12, ~sqrt_b_x64.ok, "sqrt_at_tick upper")
        sqrt_lo == Min(sqrt_a_x64.val, sqrt_b_x64.val)
        sqrt_hi == IF sqrt_a_x64.val < sqrt_b_x64.val THEN sqrt_b_x64.val ELSE sqrt_a_x64.val
        q == raydium_quote(o.amount0, o.amount1, c.sqrt_price_x64, sqrt_lo, sqrt_hi)
        r14 == BailIf(r13, q.err # "", q.err)
        r15 == BailIf(r14, q.liquidity = 0, "computed liquidity is zero")
        ix == [kind |-> "OpenPositionV2", pool_state |-> o.pool,
               position_nft_mint |-> "new_position",
               group_lower |-> derive_tick_array_pda(o.pool, lower_start.val, CLMM_PROGRAM_ID),
               group_upper |-> derive_tick_array_pda(o.pool, upper_start.val, CLMM_PROGRAM_ID),
               token_account_0 |-> get_associated_token_address(PAYER, c.mint0, token_program0),
               token_account_1 |-> get_associated_token_address(PAYER, c.mint1, token_program1),
               tick_lower_index |-> lower, tick_upper_index |-> upper,
               tick_array_lower_start_index |-> lower_start.val,
               tick_array_upper_start_index |-> upper_start.val,
               liquidity |-> q.liquidity,
               amount_0_max |-> o.amount0, amount_1_max |-> o.amount1,
               base_flag |-> <<>>]
        r16 == Push(r15, ix)
        r17 == simulate_and_send(r16, r16.ixs, {PAYER, "new_position"}, c)
    IN  Finish(raydium_unwrap_after(r17, o, c))

\* find_position_nft_account: the signer's ATA for the position mint if it
\* holds the NFT, else the first of the signer's token accounts that does.
find_position_nft_account(r, c) ==
    LET r1 == Rpc(r, "get_account:nft_ata")
        r2 == Rpc(r1, "get_token_accounts_by_owner")
    IN  IF c.nft = "ata" THEN r1
        ELSE IF c.nft = "other" THEN Rpc(r2, "get_account:nft_account")
        ELSE Bail(r2, "no token account holding the position NFT was found")

\* reward_remaining_accounts: per configured reward slot, one mint read and
\* one ATA existence read, creating the ATA when missing.  The reward may be
\* paid in a token of its own or in the pool's token 1, in which case the
\* reward account is the user's token-1 account.
reward_remaining_accounts(r, c) ==
    LET own_token == c.reward_mint = c.mint1
        reward_program ==
            IF own_token THEN raydium_token_program(c.mint_owner1) ELSE SPL_TOKEN
        exists == IF own_token THEN c.ata1_exists ELSE c.reward_ata_exists
    IN  IF c.rewards = 0 THEN r
        ELSE ensure_ata(Rpc(r, "get_account:reward_mint"), PAYER, c.reward_mint,
                        reward_program, AtaAnswer(c, exists))

raydium_handle_remove_all(o, c, r0) ==
    LET r1 == BailIf(r0, ~ValidKey(o.remove_position), "invalid position NFT mint")
        r2 == BailIf(Rpc(r1, "get_account:position"), ~c.pos_owner_ok,
                     "personal_position account owner mismatch")
        r3 == BailIf(r2, ~c.pos_decodes, "decode personal position via raydium_clmm")
        r4 == BailIf(r3, c.pos_liquidity = 0, "position has zero liquidity")
        r5 == BailIf(Rpc(r4, "get_account:pool"), ~c.pool_owner_ok, "pool account owner mismatch")
        r6 == BailIf(r5, ~c.pool_decodes, "decode pool via raydium_clmm")
        token_program0 == raydium_token_program(c.mint_owner0)
        token_program1 == raydium_token_program(c.mint_owner1)
        r7 == raydium_ensure_atas(r6, c)
        lower == c.pos_lower
        upper == c.pos_upper
        lower_start == tick_array_start_index(lower, c.tick_spacing)
        upper_start == tick_array_start_index(upper, c.tick_spacing)
        r8 == PanicIf(r7, lower_start.panic \/ upper_start.panic,
                      "attempt to subtract with overflow")
        r9 == find_position_nft_account(r8, c)
        r10 == reward_remaining_accounts(r9, c)
        dec_ix ==
            [kind |-> "DecreaseLiquidityV2", pool_state |-> c.pos_pool,
             position_nft_mint |-> o.remove_position,
             group_lower |-> derive_tick_array_pda(c.pos_pool, lower_start.val, CLMM_PROGRAM_ID),
             group_upper |-> derive_tick_array_pda(c.pos_pool, upper_start.val, CLMM_PROGRAM_ID),
             recipient_token_account_0 |-> get_associated_token_address(PAYER, c.mint0, token_program0),
             recipient_token_account_1 |-> get_associated_token_address(PAYER, c.mint1, token_program1),
             reward_groups |-> c.rewards,
             liquidity |-> c.pos_liquidity,
             amount_0_min |-> o.min_out0, amount_1_min |-> o.min_out1]
        r11 == Push(r10, dec_ix)
        r12 == PushIf(r11, o.close,
                      [kind |-> "ClosePosition", position_nft_mint |-> o.remove_position])
        r13 == simulate_and_send(r12, r12.ixs, {PAYER}, c)
    IN  Finish(raydium_unwrap_after(r13, o, c))

raydium_handle_swap(o, c, r0) ==
    LET r1 == BailIf(r0, o.swap_amount_in = 0, "--swap-amount-in must be > 0")
        r2 == BailIf(r1, ~ValidKey(o.swap_pool), "invalid swap pool id")
        r3 == BailIf(Rpc(r2, "get_account:pool"), ~c.pool_owner_ok, "pool account owner mismatch")
        r4 == BailIf(r3, ~c.pool_decodes, "decode pool via raydium_clmm")
        input_mint == IF o.swap_a_to_b THEN c.mint0 ELSE c.mint1
        output_mint == IF o.swap_a_to_b THEN c.mint1 ELSE c.mint0
        input_owner == IF o.swap_a_to_b THEN c.mint_owner0 ELSE c.mint_owner1
        output_owner == IF o.swap_a_to_b THEN c.mint_owner1 ELSE c.mint_owner0
        input_exists == IF o.swap_a_to_b THEN c.ata0_exists ELSE c.ata1_exists
        output_exists == IF o.swap_a_to_b THEN c.ata1_exists ELSE c.ata0_exists
        r5 == Rpc(Rpc(r4, "get_account:mint_in"), "get_account:mint_out")
        r6 == BailIf(r5, ~(input_owner \in {SPL_TOKEN, Unfetchable})
                         \/ ~(output_owner \in {SPL_TOKEN, Unfetchable}),
                     "swap_v1 only supports SPL Token mints")
        r7 == ensure_ata(r6, PAYER, input_mint, SPL_TOKEN, AtaAnswer(c, input_exists))
        r8 == ensure_ata(r7, PAYER, output_mint, SPL_TOKEN, AtaAnswer(c, output_exists))
        tick_start == tick_array_start_index(c.tick_current, c.tick_spacing)
        r9 == PanicIf(r8, tick_start.panic, "attempt to subtract with overflow")
        ix == [kind |-> "Swap", pool_state |-> o.swap_pool,
               input_token_account |-> get_associated_token_address(PAYER, input_mint, SPL_TOKEN),
               output_token_account |-> get_associated_token_address(PAYER, output_mint, SPL_TOKEN),
               groups |-> <<derive_tick_array_pda(o.swap_pool, tick_start.val, CLMM_PROGRAM_ID)>>,
               amount |-> o.swap_amount_in,
               other_amount_threshold |-> o.swap_min_out,
               sqrt_price_limit |-> o.swap_sqrt_price_limit,
               a_to_b |-> o.swap_a_to_b]
        r10 == Push(r9, ix)
        r11 == simulate_and_send(r10, r10.ixs, {PAYER}, c)
    IN  Finish(raydium_unwrap_after(r11, o, c))

raydium_run_open_first(o, c) ==
    LET r0 == RunPrologue(o, c)
        r1 == PushIf(r0, o.unwrap_sol, build_unwrap_sol_ix(PAYER))
    IN  IF o.pool # None THEN raydium_handle_open(o, c, r0)
        ELSE IF o.remove_position # None THEN raydium_handle_remove_all(o, c, r0)
        ELSE IF o.swap_pool # None THEN raydium_handle_swap(o, c, r0)
        ELSE IF Len(r1.ixs) > 2 \/ o.unwrap_sol
        THEN Finish(simulate_and_send(r1, r1.ixs, {PAYER}, c))
        ELSE Bail(r1, "provide swap/open/remove args or wrap/unwrap flags")

raydium_run(o, c) ==
    LET r0 == RunPrologue(o, c)
        r1 == PushIf(r0, o.unwrap_sol, build_unwrap_sol_ix(PAYER))
    IN  IF o.swap_pool # None THEN raydium_handle_swap(o, c, r0)
        ELSE IF o.remove_position # None THEN raydium_handle_remove_all(o, c, r0)
        ELSE IF o.pool # None THEN raydium_handle_open(o, c, r0)
        ELSE IF Len(r1.ixs) > 2 \/ o.unwrap_sol
        THEN Finish(simulate_and_send(r1, r1.ixs, {PAYER}, c))
        ELSE Bail(r1, "provide swap/open/remove args or wrap/unwrap flags")

-----------------------------------------------------------------------------
(* orca_whirlpools_core, as used by orca.rs *)

ORCA_TICK_ARRAY_SIZE == 88
MIN_SQRT_PRICE == Q64 - TickLimit
MAX_SQRT_PRICE == Q64 + TickLimit

\* ocore::get_tick_array_start_tick_index: floor to a multiple of
\* TICK_ARRAY_SIZE * tick_spacing.
get_tick_array_start_tick_index(tick_index, tick_spacing) ==
    LET tick_array_size == ORCA_TICK_ARRAY_SIZE * tick_spacing
    IN  DivEuclid(tick_index, tick_array_size) * tick_array_size

\* The decimal digits of a number, as the string seed of a tick array.
RECURSIVE Digits(_)
Digits(n) == IF n < 10 THEN <<n>> ELSE Digits(n \div 10) \o <<n % 10>>
to_string(n) == IF n < 0 THEN <<"-">> \o Digits(-n) ELSE Digits(n)

\* owc::get_tick_array_address: seeds "tick_array", whirlpool, start index
\* in decimal.
get_tick_array_address(whirlpool, start_tick_index) ==
    find_program_address(<<"tick_array", whirlpool>> \o to_string(start_tick_index),
                         WHIRLPOOL_PROGRAM_ID)

tick_index_to_sqrt_price(tick) == Q64 + tick

position_status(current_sqrt_price, tick_lower, tick_upper) ==
    IF tick_lower = tick_upper THEN "Invalid"
    ELSE IF current_sqrt_price <= tick_index_to_sqrt_price(tick_lower) THEN "PriceBelowRange"
    ELSE IF current_sqrt_price >= tick_index_to_sqrt_price(tick_upper) THEN "PriceAboveRange"
    ELSE "PriceInRange"

get_liquidity_from_a(token_delta_a, sqrt_price_lower, sqrt_price_upper) ==
    ((token_delta_a * sqrt_price_lower * sqrt_price_upper)
        \div (sqrt_price_upper - sqrt_price_lower)) \div Q64

get_liquidity_from_b(token_delta_b, sqrt_price_lower, sqrt_price_upper) ==
    (token_delta_b * Q64) \div (sqrt_price_upper - sqrt_price_lower)

CeilDiv(a, b) == (a \div b) + (IF a % b # 0 THEN 1 ELSE 0)

\* try_get_amount_delta_a / _b with round_up = true.
get_amount_delta_a(sqrt_price_1, sqrt_price_2, liquidity) ==
    CeilDiv(liquidity * (sqrt_price_2 - sqrt_price_1) * Q64, sqrt_price_1 * sqrt_price_2)

get_amount_delta_b(sqrt_price_1, sqrt_price_2, liquidity) ==
    CeilDiv(liquidity * (sqrt_price_2 - sqrt_price_1), Q64)

ZeroQuote ==
    [liquidity_delta |-> 0, token_est_a |-> 0, token_est_b |-> 0,
     token_max_a |-> 0, token_max_b |-> 0]

\* ocore::increase_liquidity_quote with slippage tolerance 0 and no transfer
\* fees: the maxima equal the rounded-up estimates.
increase_liquidity_quote(liquidity, current_sqrt_price, tick_lower, tick_upper) ==
    LET lo == tick_index_to_sqrt_price(tick_lower)
        hi == tick_index_to_sqrt_price(tick_upper)
        status == position_status(current_sqrt_price, tick_lower, tick_upper)
        est_a == IF status = "PriceBelowRange" THEN get_amount_delta_a(lo, hi, liquidity)
                 ELSE IF status = "PriceInRange"
                 THEN get_amount_delta_a(current_sqrt_price, hi, liquidity)
                 ELSE 0
        est_b == IF status = "PriceAboveRange" THEN get_amount_delta_b(lo, hi, liquidity)
                 ELSE IF status = "PriceInRange"
                 THEN get_amount_delta_b(lo, current_sqrt_price, liquidity)
                 ELSE 0
    IN  IF liquidity = 0 THEN ZeroQuote
        ELSE [liquidity_delta |-> liquidity, token_est_a |-> est_a, token_est_b |-> est_b,
              token_max_a |-> est_a, token_max_b |-> est_b]

increase_liquidity_quote_a(token_amount_a, current_sqrt_price, tick_lower, tick_upper) ==
    LET lo == tick_index_to_sqrt_price(tick_lower)
        hi == tick_index_to_sqrt_price(tick_upper)
        status == position_status(current_sqrt_price, tick_lower, tick_upper)
        liquidity == IF status = "PriceBelowRange" THEN get_liquidity_from_a(token_amount_a, lo, hi)
                     ELSE IF status = "PriceInRange"
                     THEN get_liquidity_from_a(token_amount_a, current_sqrt_price, hi)
                     ELSE 0
    IN  IF token_amount_a = 0 THEN ZeroQuote
        ELSE increase_liquidity_quote(liquidity, current_sqrt_price, tick_lower, tick_upper)

increase_liquidity_quote_b(token_amount_b, current_sqrt_price, tick_lower, tick_upper) ==
    LET lo == tick_index_to_sqrt_price(tick_lower)
        hi == tick_index_to_sqrt_price(tick_upper)
        status == position_status(current_sqrt_price, tick_lower, tick_upper)
        liquidity == IF status = "PriceAboveRange" THEN get_liquidity_from_b(token_amount_b, lo, hi)
                     ELSE IF status = "PriceInRange"
                     THEN get_liquidity_from_b(token_amount_b, lo, current_sqrt_price)
                     ELSE 0
    IN  IF token_amount_b = 0 THEN ZeroQuote
        ELSE increase_liquidity_quote(liquidity, current_sqrt_price, tick_lower, tick_upper)

-----------------------------------------------------------------------------
(* orca.rs *)

QuoteOk(q) == [err |-> "", quote |-> q]
QuoteFail(msg) == [err |-> msg, quote |-> ZeroQuote]

orca_quote_b_first(amount0, amount1, sqrt_price_x64, lower, upper) ==
    IF amount0 > 0 /\ amount1 = 0
    THEN QuoteOk(increase_liquidity_quote_a(amount0, sqrt_price_x64, lower, upper))
    ELSE IF amount1 > 0 /\ amount0 = 0
    THEN QuoteOk(increase_liquidity_quote_b(amount1, sqrt_price_x64, lower, upper))
    ELSE QuoteOk(increase_liquidity_quote_b(amount1, sqrt_price_x64, lower, upper))

\* The quote selection of handle_open: one-sided budgets use the matching
\* quote; with both budgets, the token-0-driven quote if its token_max_b
\* fits amount1, else the token-1-driven quote if its token_max_a fits
\* amount0, else failure.
orca_quote(amount0, amount1, sqrt_price_x64, lower, upper) ==
    IF amount0 > 0 /\ amount1 = 0
    THEN QuoteOk(increase_liquidity_quote_a(amount0, sqrt_price_x64, lower, upper))
    ELSE IF amount1 > 0 /\ amount0 = 0
    THEN QuoteOk(increase_liquidity_quote_b(amount1, sqrt_price_x64, lower, upper))
    ELSE
    LET quote_a == increase_liquidity_quote_a(amount0, sqrt_price_x64, lower, upper)
        quote_b == increase_liquidity_quote_b(amount1, sqrt_price_x64, lower, upper)
    IN  IF quote_a.token_max_b <= amount1 THEN QuoteOk(quote_a)
        ELSE IF quote_b.token_max_a <= amount0 THEN QuoteOk(quote_b)
        ELSE QuoteFail("provided token amounts are too low for both sides")

orca_handle_open(o, c, r0) ==
    LET lower == Unwrap(o.lower)
        upper == Unwrap(o.upper)
        r1 == BailIf(r0, ~ValidKey(o.pool), "invalid pool id")
        r2 == BailIf(r1, ~IsSome(o.lower), "missing --lower")
        r3 == BailIf(r2, ~IsSome(o.upper), "missing --upper")
        r4 == BailIf(r3, upper <= lower, "upper tick must be > lower tick")
        r5 == BailIf(r4, o.amount0 = 0 /\ o.amount1 = 0, "specify amounts")
        r6 == BailIf(Rpc(r5, "get_account:pool"), ~c.pool_owner_ok, "pool account owner mismatch")
        r7 == BailIf(r6, ~c.pool_decodes, "whirlpool account length mismatch")
        token_program_a == detect_token_program_for_mint(c.mint_owner0)
        token_program_b == detect_token_program_for_mint(c.mint_owner1)
        r8 == detect_mints(r7, c)
        r9 == ensure_ata(r8, PAYER, c.mint0, token_program_a, AtaAnswer(c, c.ata0_exists))
        r10 == ensure_ata(r9, PAYER, c.mint1, token_program_b, AtaAnswer(c, c.ata1_exists))
        lower_start == get_tick_array_start_tick_index(lower, c.tick_spacing)
        upper_start == get_tick_array_start_tick_index(upper, c.tick_spacing)
        r11 == Push(r10, [kind |-> "OpenPosition", whirlpool |-> o.pool,
                          position_mint |-> "new_position",
                          tick_lower_index |-> lower, tick_upper_index |-> upper])
        q == orca_quote(o.amount0, o.amount1, c.sqrt_price_x64, lower, upper)
        r12 == BailIf(r11, q.err # "", q.err)
        inc_ix ==
            [kind |-> "IncreaseLiquidityV2", whirlpool |-> o.pool,
             position_mint |-> "new_position",
             token_owner_account_a |-> get_associated_token_address(PAYER, c.mint0, token_program_a),
             token_owner_account_b |-> get_associated_token_address(PAYER, c.mint1, token_program_b),
             group_lower |-> get_tick_array_address(o.pool, lower_start),
             group_upper |-> get_tick_array_address(o.pool, upper_start),
             liquidity |-> q.quote.liquidity_delta,
             token_max_a |-> q.quote.token_max_a,
             token_max_b |-> q.quote.token_max_b]
        r13 == Push(r12, inc_ix)
    IN  Finish(simulate_and_send(r13, r13.ixs, {PAYER, "new_position"}, c))

\* handle_remove_all appends to the plan; run() submits it.
orca_handle_remove_all(o, c, r0) ==
    LET r1 == BailIf(r0, ~ValidKey(o.remove_position), "invalid position NFT mint")
        r2 == BailIf(Rpc(r1, "get_account:position"), ~c.pos_decodes,
                     "position account length mismatch")
        r3 == BailIf(Rpc(r2, "get_account:pool"), ~c.pool_owner_ok,
                     "position's whirlpool not owned by Orca program")
        r4 == BailIf(r3, ~c.pool_decodes, "whirlpool account length mismatch")
        token_program_a == detect_token_program_for_mint(c.mint_owner0)
        token_program_b == detect_token_program_for_mint(c.mint_owner1)
        r5 == detect_mints(r4, c)
        r6 == ensure_ata(r5, PAYER, c.mint0, token_program_a, AtaAnswer(c, c.ata0_exists))
        r7 == ensure_ata(r6, PAYER, c.mint1, token_program_b, AtaAnswer(c, c.ata1_exists))
        lower_start == get_tick_array_start_tick_index(c.pos_lower, c.tick_spacing)
        upper_start == get_tick_array_start_tick_index(c.pos_upper, c.tick_spacing)
        ata_a == get_associated_token_address(PAYER, c.mint0, token_program_a)
        ata_b == get_associated_token_address(PAYER, c.mint1, token_program_b)
        dec_ix ==
            [kind |-> "DecreaseLiquidityV2", whirlpool |-> c.pos_pool,
             position_mint |-> o.remove_position,
             token_owner_account_a |-> ata_a, token_owner_account_b |-> ata_b,
             group_lower |-> get_tick_array_address(c.pos_pool, lower_start),
             group_upper |-> get_tick_array_address(c.pos_pool, upper_start),
             liquidity |-> c.pos_liquidity, token_min_a |-> 0, token_min_b |-> 0]
        collect_ix ==
            [kind |-> "CollectFeesV2", whirlpool |-> c.pos_pool,
             position_mint |-> o.remove_position,
             token_owner_account_a |-> ata_a, token_owner_account_b |-> ata_b]
        r8 == PushIf(PushIf(r7, c.pos_liquidity > 0, dec_ix), c.pos_liquidity > 0, collect_ix)
    IN  Push(r8, [kind |-> "ClosePosition", position_mint |-> o.remove_position])

orca_sqrt_price_limit_passthrough(o) == o.swap_sqrt_price_limit

\* The limit of SwapV2: 0 stands for no limit, which is the protocol's
\* minimum for a -> b and its maximum for b -> a.
orca_sqrt_price_limit(o) ==
    IF o.swap_sqrt_price_limit = 0
    THEN IF o.swap_a_to_b THEN MIN_SQRT_PRICE ELSE MAX_SQRT_PRICE
    ELSE o.swap_sqrt_price_limit

orca_handle_swap(o, c, r0) ==
    LET r1 == BailIf(r0, o.swap_amount_in = 0, "--swap-amount-in must be > 0")
        r2 == BailIf(r1, ~ValidKey(o.swap_pool), "invalid swap pool id")
        r3 == BailIf(Rpc(r2, "get_account:pool"), ~c.pool_owner_ok, "pool account owner mismatch")
        r4 == BailIf(r3, ~c.pool_decodes, "whirlpool account length mismatch")
        token_program_a == detect_token_program_for_mint(c.mint_owner0)
        token_program_b == detect_token_program_for_mint(c.mint_owner1)
        r5 == detect_mints(r4, c)
        r6 == ensure_ata(r5, PAYER, c.mint0, token_program_a, AtaAnswer(c, c.ata0_exists))
        r7 == ensure_ata(r6, PAYER, c.mint1, token_program_b, AtaAnswer(c, c.ata1_exists))
        arr_span == c.tick_spacing * ORCA_TICK_ARRAY_SIZE
        start0 == get_tick_array_start_tick_index(c.tick_current, c.tick_spacing)
        start1 == IF o.swap_a_to_b THEN start0 - arr_span ELSE start0 + arr_span
        start2 == IF o.swap_a_to_b THEN start0 - 2 * arr_span ELSE start0 + 2 * arr_span
        sqrt_price_limit == orca_sqrt_price_limit(o)
    IN  Push(r7, [kind |-> "SwapV2", whirlpool |-> o.swap_pool,
                  token_owner_account_a |-> get_associated_token_address(PAYER, c.mint0, token_program_a),
                  token_owner_account_b |-> get_associated_token_address(PAYER, c.mint1, token_program_b),
                  groups |-> << get_tick_array_address(o.swap_pool, start0),
                                get_tick_array_address(o.swap_pool, start1),
                                get_tick_array_address(o.swap_pool, start2) >>,
                  amount |-> o.swap_amount_in,
                  other_amount_threshold |-> o.swap_min_out,
                  sqrt_price_limit |-> sqrt_price_limit,
                  a_to_b |-> o.swap_a_to_b])

orca_run(o, c) ==
    LET r0 == RunPrologue(o, c)
        r1 == IF o.swap_pool # None THEN orca_handle_swap(o, c, r0)
              ELSE IF o.remove_position # None THEN orca_handle_remove_all(o, c, r0)
              ELSE r0
        r2 == PushIf(r1, o.unwrap_sol, build_unwrap_sol_ix(PAYER))
    IN  IF o.swap_pool = None /\ o.remove_position = None /\ o.pool # None
        THEN orca_handle_open(o, c, r0)
        ELSE IF ~Running(r2) THEN r2
        ELSE IF Len(r2.ixs) > 2
        THEN Finish(simulate_and_send(r2, r2.ixs, {PAYER}, c))
        ELSE Finish(r2)

-----------------------------------------------------------------------------
(* solana_liq_arb/src/open_cmd.rs, pool_cache.rs *)

\* pool_cache::get_or_fetch_sync(refresh = false): the cached snapshot if
\* its file exists, else one fetch of the pool account, which is then
\* written to the cache.
get_or_fetch_sync(r, c) ==
    IF c.cache_exists THEN r
    ELSE BailIf(Rpc(r, "get_account:pool"), ~c.pool_decodes, "decode pool state failed")

snapshot_tick_spacing(c) == IF c.cache_exists THEN c.cache_tick_spacing ELSE c.tick_spacing

\* mint_owner_program(..).unwrap_or(SPL_TOKEN_PROGRAM_ID)
mint_owner_program(mint_owner) == IF mint_owner = Unfetchable THEN SPL_TOKEN ELSE mint_owner

run_open(o, c) ==
    LET r0 == Begin(<<>>)
        r1 == BailIf(r0, ~ValidKey(o.pool), "pool pubkey")
        r2 == get_or_fetch_sync(r1, c)
        tick_spacing == snapshot_tick_spacing(c)
        have_ticks == IsSome(o.lower) /\ IsSome(o.upper)
        have_prices == IsSome(o.price_lower) /\ IsSome(o.price_upper)
        t_lower == IF have_ticks THEN Unwrap(o.lower) ELSE Unwrap(o.price_lower)
        t_upper == IF have_ticks THEN Unwrap(o.upper) ELSE Unwrap(o.price_upper)
        r3 == BailIf(r2, ~have_ticks /\ ~have_prices,
                     "supply either --tick-lower/--tick-upper or --price-min/--price-max")
        r4 == BailIf(r3, t_lower >= t_upper, "tick_lower must be < tick_upper")
        r5 == BailIf(r4, RustRem(t_lower, tick_spacing) # 0 \/ RustRem(t_upper, tick_spacing) # 0,
                     "ticks must be multiples of tick_spacing")
        ta_lower_start == tick_array_start(t_lower, tick_spacing)
        ta_upper_start == tick_array_start(t_upper, tick_spacing)
        r6 == PanicIf(r5, ta_lower_start.panic \/ ta_upper_start.panic,
                      "attempt to multiply with overflow")
        token_program0 == mint_owner_program(c.mint_owner0)
        token_program1 == mint_owner_program(c.mint_owner1)
        r7 == Rpc(Rpc(r6, "get_account:mint0"), "get_account:mint1")
        ix == [kind |-> "OpenPositionV2", pool_state |-> o.pool,
               position_nft_mint |-> "new_position",
               group_lower |-> tick_array_pda(o.pool, ta_lower_start.val, CLMM_PROGRAM_ID),
               group_upper |-> tick_array_pda(o.pool, ta_upper_start.val, CLMM_PROGRAM_ID),
               token_account_0 |-> get_associated_token_address(PAYER, c.mint0, token_program0),
               token_account_1 |-> get_associated_token_address(PAYER, c.mint1, token_program1),
               tick_lower_index |-> t_lower, tick_upper_index |-> t_upper,
               tick_array_lower_start_index |-> ta_lower_start.val,
               tick_array_upper_start_index |-> ta_upper_start.val,
               liquidity |-> 0,
               amount_0_max |-> o.amount0, amount_1_max |-> o.amount1,
               base_flag |-> <<FALSE>>]
        r8 == Rpc(Push(r7, ix), "get_latest_blockhash")
        tx == [ixs |-> r8.ixs, signers |-> {PAYER, "new_position"}]
    IN  IF ~Running(r8) THEN r8
        ELSE Finish([r8 EXCEPT !.log = Append(@, [ev |-> "send", tx |-> tx]),
                               !.sent = Append(@, tx)])

-----------------------------------------------------------------------------
(* Invocations: the command line of one run and the chain state it meets. *)

MaxAmount == 100

OptInt(S) == {<<>>} \cup {Some(v) : v \in S}

\* Tick ranges: both tick spacings of the modelled pools, ticks sharing a
\* tick array and not, one tick that is no multiple of 10, and one tick
\* beyond the protocol's tick limit.
OpenTicks == {-70, -60, -10, 0, 5, 10, 60, 70, TickLimit + 10}
OpenBins == {-71, -70, -1, 0, 5, 10, 69, 70}
Amounts == {0, 1, MaxAmount}
SqrtPrices == {Q64 - 80, Q64 - 10, Q64, Q64 + 7, Q64 + 10, Q64 + 65, Q64 + 80}
MintOwners == {SPL_TOKEN, SPL_TOKEN_2022, Unfetchable}
SimOutcomes == {<<TRUE, TRUE>>, <<FALSE, TRUE>>, <<TRUE, FALSE>>}

DefaultOpts ==
    [dex |-> "raydium", cu_limit |-> 1200000, cu_price |-> 1000,
     pool |-> None, lower |-> <<>>, upper |-> <<>>, amount0 |-> 0, amount1 |-> 0,
     price_lower |-> <<>>, price_upper |-> <<>>,
     wrap_sol |-> 0, unwrap_sol |-> FALSE,
     swap_pool |-> None, swap_amount_in |-> 0, swap_min_out |-> 0,
     swap_a_to_b |-> TRUE, swap_sqrt_price_limit |-> 0,
     remove_position |-> None, min_out0 |-> 0, min_out1 |-> 0, close |-> FALSE]

DefaultChain ==
    [pool_owner_ok |-> TRUE, pool_decodes |-> TRUE, tick_spacing |-> 1,
     sqrt_price_x64 |-> Q64, tick_current |-> 0, active_id |-> 0,
     mint0 |-> "mint0", mint1 |-> "mint1",
     mint_owner0 |-> SPL_TOKEN, mint_owner1 |-> SPL_TOKEN,
     ata0_exists |-> TRUE, ata1_exists |-> TRUE, wsol_ata_exists |-> TRUE,
     sim_ok |-> <<TRUE, TRUE>>,
     pos_owner_ok |-> TRUE, pos_decodes |-> TRUE, pos_liquidity |-> 5,
     pos_pool |-> "poolA", pos_lower |-> 0, pos_upper |-> 10,
     nft |-> "ata", rewards |-> 0, reward_ata_exists |-> TRUE, ata_read_ok |-> TRUE,
     reward_mint |-> "reward_mint",
     cache_exists |-> TRUE, cache_tick_spacing |-> 1]

\* Command-line switches and account conditions that vary independently of
\* the numbers.
OptFlags(o) ==
    {[o EXCEPT !.wrap_sol = w, !.unwrap_sol = u, !.close = cl] :
        w \in {0, 5}, u \in BOOLEAN, cl \in BOOLEAN}

ChainFlags(c) ==
    {[c EXCEPT !.pool_owner_ok = po, !.pool_decodes = pd, !.mint_owner0 = m0,
               !.ata0_exists = a0, !.ata1_exists = a1, !.wsol_ata_exists = wa,
               !.sim_ok = so] :
        po \in BOOLEAN, pd \in BOOLEAN, m0 \in MintOwners, a0 \in BOOLEAN,
        a1 \in BOOLEAN, wa \in BOOLEAN, so \in SimOutcomes}

\* The account conditions above, a node that fails the token-account
\* existence reads, and a pool whose token 0 is wrapped SOL (the user's
\* token-0 account is then the WSOL account).
FlagChains ==
    ChainFlags(DefaultChain)
    \cup {[DefaultChain EXCEPT !.ata_read_ok = FALSE, !.ata0_exists = a0] : a0 \in BOOLEAN}
    \cup {[DefaultChain EXCEPT !.mint0 = WSOL_MINT, !.wsol_ata_exists = e,
                                !.ata0_exists = e] : e \in BOOLEAN}

\* Open invocations: every combination of range and budgets against every
\* price and tick spacing, and a few ranges against every combination of
\* switches and account conditions.
OpenOptsOver(Points) ==
    {[DefaultOpts EXCEPT !.pool = "poolA", !.lower = l, !.upper = u,
                         !.amount0 = a0, !.amount1 = a1] :
        l \in OptInt(Points), u \in OptInt(Points), a0 \in Amounts, a1 \in Amounts}

OpenOptsFew ==
    {[DefaultOpts EXCEPT !.pool = p, !.lower = Some(lu[1]), !.upper = Some(lu[2]),
                         !.amount0 = MaxAmount, !.amount1 = a1] :
        p \in {"poolA", "invalid"}, lu \in {<<0, 10>>, <<-10, 70>>, <<10, 0>>},
        a1 \in {0, MaxAmount}}

OpenChains ==
    {[DefaultChain EXCEPT !.sqrt_price_x64 = sp, !.tick_spacing = ts] :
        sp \in SqrtPrices, ts \in {1, 10}}

OpenInputs(Points) ==
    (OpenOptsOver(Points) \X OpenChains)
    \cup ((UNION {OptFlags(o) : o \in OpenOptsFew}) \X FlagChains)

RemoveInputs ==
    LET os == UNION {OptFlags([DefaultOpts EXCEPT !.remove_position = rp, !.min_out0 = 1]) :
                        rp \in {"positionA", "invalid"}}
        ranges == {<<0, 10>>, <<-10, 10>>, <<5, 10>>, <<-70, 70>>, <<60, 70>>}
        cs == {[DefaultChain EXCEPT !.pos_lower = lu[1], !.pos_upper = lu[2],
                                    !.tick_spacing = ts, !.pos_liquidity = pl] :
                  lu \in ranges, ts \in {1, 10}, pl \in {0, 5}}
              \cup {[c EXCEPT !.pos_owner_ok = ok, !.pos_decodes = pd, !.nft = n,
                              !.rewards = rw, !.reward_ata_exists = re] :
                       c \in {[DefaultChain EXCEPT !.sim_ok = so] : so \in SimOutcomes},
                       ok \in BOOLEAN, pd \in BOOLEAN, n \in {"ata", "other", "missing"},
                       rw \in {0, 1}, re \in BOOLEAN}
              \cup FlagChains
              \cup {[DefaultChain EXCEPT !.rewards = 1, !.reward_mint = "mint1",
                                          !.ata1_exists = a1] : a1 \in BOOLEAN}
    IN  os \X cs

SwapInputs ==
    LET os == UNION {OptFlags([DefaultOpts EXCEPT !.swap_pool = sp, !.swap_amount_in = ai,
                                                  !.swap_min_out = 1, !.swap_a_to_b = ab,
                                                  !.swap_sqrt_price_limit = lim]) :
                        sp \in {"poolA", "invalid"}, ai \in {0, 7}, ab \in BOOLEAN,
                        lim \in {0, Q64 + 3}}
        cs == {[DefaultChain EXCEPT !.tick_current = t, !.active_id = t, !.tick_spacing = ts] :
                  t \in {-70, -1, 0, 69, 70}, ts \in {1, 10}}
              \cup FlagChains
    IN  os \X cs

\* Invocations that name no operation.
BareInputs == OptFlags(DefaultOpts) \X FlagChains

\* Invocations that name more than one operation.
CombinedInputs ==
    LET os == UNION {OptFlags([DefaultOpts EXCEPT
                                  !.swap_pool = sp, !.swap_amount_in = 7,
                                  !.remove_position = rp,
                                  !.pool = p, !.lower = Some(0), !.upper = Some(10),
                                  !.amount0 = MaxAmount, !.amount1 = MaxAmount]) :
                        sp \in {None, "poolA"}, rp \in {None, "positionA"},
                        p \in {None, "poolA"}}
        several == {o \in os : Cardinality({f \in {"swap_pool", "remove_position", "pool"} :
                                               o[f] # None}) >= 2}
    IN  several \X {[DefaultChain EXCEPT !.sim_ok = so] : so \in SimOutcomes}

\* Meteora opens over wide ranges: as many bins as there are basis points,
\* one more, and ranges whose width does not fit i32.
WideOpenInputs ==
    {[DefaultOpts EXCEPT !.pool = "poolA", !.lower = Some(lu[1]), !.upper = Some(lu[2]),
                         !.amount0 = a[1], !.amount1 = a[2]] :
        lu \in {<<0, 9999>>, <<0, 10000>>, <<0, I32Max>>, <<I32Min, I32Max>>},
        a \in {<<MaxAmount, 0>>, <<0, 1>>, <<1, 1>>}}
    \X {DefaultChain}

DexInputs(Points) ==
    OpenInputs(Points) \cup RemoveInputs \cup SwapInputs \cup BareInputs
    \cup CombinedInputs

\* run_open takes its pool data from the snapshot cache, which may be
\* missing or older than the pool account.
RunOpenInputs ==
    LET os == {[o EXCEPT !.dex = "run_open"] : o \in OpenOptsOver(OpenTicks)}
              \cup {[DefaultOpts EXCEPT !.dex = "run_open", !.pool = p,
                                        !.price_lower = pl, !.price_upper = pu,
                                        !.amount0 = MaxAmount] :
                       p \in {"poolA", "invalid"}, pl \in OptInt({0}), pu \in OptInt({10})}
        cs == {[DefaultChain EXCEPT !.tick_spacing = ts, !.cache_tick_spacing = cts,
                                    !.cache_exists = ce, !.pool_decodes = pd,
                                    !.mint_owner0 = m0] :
                  ts \in {1, 10}, cts \in {1, 10}, ce \in BOOLEAN, pd \in BOOLEAN,
                  m0 \in MintOwners}
              \cup {[DefaultChain EXCEPT !.ata0_exists = a0, !.ata1_exists = a1] :
                       a0 \in BOOLEAN, a1 \in BOOLEAN}
    IN  os \X cs

-----------------------------------------------------------------------------
(* One invocation at a time: the process starts, runs to its end, exits. *)

Init == InitMath

RaydiumRun ==
    /\ pc = "idle"
    /\ \E in \in DexInputs(OpenTicks) :
        /\ opts' = [in[1] EXCEPT !.dex = "raydium"]
        /\ chain' = in[2]
        /\ res' = raydium_run(in[1], in[2])
    /\ pc' = "done"
    /\ UNCHANGED <<overflow_checks, mathvars>>

OrcaRun ==
    /\ pc = "idle"
    /\ \E in \in DexInputs(OpenTicks) :
        /\ opts' = [in[1] EXCEPT !.dex = "orca"]
        /\ chain' = in[2]
        /\ res' = orca_run(in[1], in[2])
    /\ pc' = "done"
    /\ UNCHANGED <<overflow_checks, mathvars>>

MeteoraRun ==
    /\ pc = "idle"
    /\ \E in \in DexInputs(OpenBins) \cup WideOpenInputs :
        /\ opts' = [in[1] EXCEPT !.dex = "meteora"]
        /\ chain' = in[2]
        /\ res' = meteora_run(in[1], in[2])
    /\ pc' = "done"
    /\ UNCHANGED <<overflow_checks, mathvars>>

RunOpen ==
    /\ pc = "idle"
    /\ \E in \in RunOpenInputs :
        /\ opts' = in[1]
        /\ chain' = in[2]
        /\ res' = run_open(in[1], in[2])
    /\ pc' = "done"
    /\ UNCHANGED <<overflow_checks, mathvars>>

Exit ==
    /\ pc = "done"
    /\ pc' = "idle"
    /\ opts' = NoRun
    /\ chain' = NoRun
    /\ res' = NoRun
    /\ UNCHANGED <<overflow_checks, mathvars>>

Next == RaydiumRun \/ OrcaRun \/ MeteoraRun \/ RunOpen \/ Exit

Spec == Init /\ [][Next]_vars

-----------------------------------------------------------------------------
(* Properties of invocations *)

Done == pc = "done"
IsSwapOp == opts.swap_pool # None
IsRemoveOp == ~IsSwapOp /\ opts.remove_position # None
IsOpenOp == ~IsSwapOp /\ ~IsRemoveOp /\ opts.pool # None

IxsOfKind(kind) == SelectSeq(res.ixs, LAMBDA ix : ix.kind = kind)
HasIx(kind) == IxsOfKind(kind) # <<>>
TheIx(kind) == IxsOfKind(kind)[1]

\* The transactions handed to the submission boundary (simulated or sent).
Submissions == SelectSeq(res.log, LAMBDA e : e.ev \in {"simulate", "send"})
NothingSubmitted == Submissions = <<>> /\ res.sent = <<>>

\* The instructions of the plan that name a lower and an upper group account.
GroupIxs == SelectSeq(res.ixs, LAMBDA ix : "group_lower" \in DOMAIN ix)

\* The range the operation works on: the position's for a remove, the
\* requested one for an open.
OpLower ==
    IF IsRemoveOp THEN chain.pos_lower
    ELSE IF IsSome(opts.lower) /\ IsSome(opts.upper) THEN Unwrap(opts.lower)
    ELSE Unwrap(opts.price_lower)
OpUpper ==
    IF IsRemoveOp THEN chain.pos_upper
    ELSE IF IsSome(opts.lower) /\ IsSome(opts.upper) THEN Unwrap(opts.upper)
    ELSE Unwrap(opts.price_upper)

\* The group index (or group start) of a range endpoint, per backend.
GroupOf(x) ==
    IF opts.dex = "meteora" THEN bin_array_index_for_bin_id(x)
    ELSE IF opts.dex = "orca" THEN get_tick_array_start_tick_index(x, chain.tick_spacing)
    ELSE IF opts.dex = "raydium" THEN tick_array_start_index(x, chain.tick_spacing).val
    ELSE tick_array_start(x, snapshot_tick_spacing(chain)).val

SameGroupRange == GroupOf(OpLower) = GroupOf(OpUpper)

\* C3 as stated: for a range whose two endpoints resolve to the same range
\* group, the open and remove operations of every backend pass two distinct
\* group addresses as the lower and upper group accounts.
C3_Original ==
    Done /\ (IsOpenOp \/ IsRemoveOp) =>
        \A i \in 1 .. Len(GroupIxs) :
            SameGroupRange => GroupIxs[i].group_lower # GroupIxs[i].group_upper

\* C3 (amended): for a range whose two endpoints resolve to the same group,
\* the Meteora open and remove pass the bin arrays of index k and k + 1,
\* which are distinct addresses; the Raydium and Orca opens and removes
\* (run_open included) pass the one tick array of the range as both the
\* lower and the upper group account.
C3_GroupAddresses ==
    Done /\ (IsOpenOp \/ IsRemoveOp) =>
        \A i \in 1 .. Len(GroupIxs) :
            SameGroupRange =>
                LET ix == GroupIxs[i]
                    lb_pair == IF IsRemoveOp THEN chain.pos_pool ELSE opts.pool
                    k == bin_array_index_for_bin_id(OpLower)
                IN  IF opts.dex = "meteora"
                    THEN /\ ix.group_lower = derive_bin_array_address(LB_CLMM_ID, lb_pair, k)
                         /\ ix.group_upper = derive_bin_array_address(LB_CLMM_ID, lb_pair, k + 1)
                         /\ ix.group_lower # ix.group_upper
                    ELSE ix.group_lower = ix.group_upper

\* A Meteora open of bins [5, 10], both in bin array 0, went through.
C3_Witness ==
    /\ Done /\ opts.dex = "meteora" /\ IsOpenOp /\ res.status = "ok"
    /\ OpLower = 5 /\ OpUpper = 10 /\ SameGroupRange
    /\ HasIx("AddLiquidity")
    /\ TheIx("AddLiquidity").group_lower # TheIx("AddLiquidity").group_upper

\* C4: in Meteora handle_open, when the lower and upper bin ids map to the
\* same bin-array index k, the upper bin-array index becomes k + 1 and the
\* position is untouched: InitializePosition carries lower_bin_id = the
\* requested lower and width = upper - lower + 1, and the liquidity
\* distribution lists exactly the bins lower..=upper.
C4_PerturbationKeepsPosition ==
    Done /\ opts.dex = "meteora" /\ IsOpenOp /\ HasIx("AddLiquidity") /\ SameGroupRange =>
        LET add == TheIx("AddLiquidity")
            init == TheIx("InitializePosition")
            k == bin_array_index_for_bin_id(OpLower)
        IN  /\ add.group_lower = derive_bin_array_address(LB_CLMM_ID, opts.pool, k)
            /\ add.group_upper = derive_bin_array_address(LB_CLMM_ID, opts.pool, k + 1)
            /\ init.lower_bin_id = OpLower
            /\ init.width = (OpUpper - OpLower) + 1
            /\ Len(add.bin_liquidity_dist) = (OpUpper - OpLower) + 1
            /\ \A j \in 1 .. Len(add.bin_liquidity_dist) :
                   add.bin_liquidity_dist[j].bin_id = OpLower + (j - 1)

\* The scenario of the claim: bins [5, 10] -> k = 0, upper index 1.
C4_Witness ==
    /\ Done /\ opts.dex = "meteora" /\ IsOpenOp /\ res.status = "ok"
    /\ OpLower = 5 /\ OpUpper = 10
    /\ bin_array_index_for_bin_id(5) = 0 /\ bin_array_index_for_bin_id(10) = 0
    /\ TheIx("AddLiquidity").group_upper = derive_bin_array_address(LB_CLMM_ID, opts.pool, 1)
    /\ TheIx("InitializePosition").width = 6

\* An open whose range is well formed: both ends given, lower < upper.
RangedOpen ==
    /\ Done /\ IsOpenOp
    /\ IsSome(opts.lower) /\ IsSome(opts.upper)
    /\ Unwrap(opts.lower) < Unwrap(opts.upper)

Token0Only == opts.amount0 > 0 /\ opts.amount1 = 0
Token1Only == opts.amount1 > 0 /\ opts.amount0 = 0
PriceAtOrAboveTop == chain.sqrt_price_x64 >= tick_index_to_sqrt_price(Unwrap(opts.upper))
PriceAtOrBelowBottom == chain.sqrt_price_x64 <= tick_index_to_sqrt_price(Unwrap(opts.lower))

\* C7 as stated: an open with only the token-0 budget nonzero fails, with
\* no transaction submitted, whenever the pool's current sqrt price is at or
\* above the sqrt price of the range top; symmetrically for token 1 at or
\* below the range bottom; on both tick-based open paths (Raydium
\* handle_open and Orca handle_open).
C7_Original ==
    RangedOpen /\ opts.dex \in {"raydium", "orca"}
    /\ ((Token0Only /\ PriceAtOrAboveTop) \/ (Token1Only /\ PriceAtOrBelowBottom))
    => res.status = "error" /\ NothingSubmitted

\* The part of C7 that the code has: Raydium handle_open.
C7_RaydiumPart ==
    RangedOpen /\ opts.dex = "raydium"
    /\ ((Token0Only /\ PriceAtOrAboveTop) \/ (Token1Only /\ PriceAtOrBelowBottom))
    => res.status = "error" /\ NothingSubmitted

\* An Orca open, token 0 only, price at or above the range top, whose plan
\* was sent with a zero-liquidity deposit.
C7_OrcaSubmits ==
    /\ RangedOpen /\ opts.dex = "orca" /\ Token0Only /\ PriceAtOrAboveTop
    /\ res.status = "ok" /\ Len(res.sent) = 1
    /\ TheIx("IncreaseLiquidityV2").liquidity = 0

\* The pool and the range are such that Raydium handle_open gets as far as
\* computing the liquidity.
RaydiumReachesQuoter ==
    /\ RangedOpen /\ opts.dex = "raydium"
    /\ ValidKey(opts.pool) /\ chain.pool_owner_ok /\ chain.pool_decodes
    /\ RustRem(Unwrap(opts.lower), chain.tick_spacing) = 0
    /\ RustRem(Unwrap(opts.upper), chain.tick_spacing) = 0
    /\ get_sqrt_price_at_tick(Unwrap(opts.lower)).ok
    /\ get_sqrt_price_at_tick(Unwrap(opts.upper)).ok

NeedsOtherToken == "price BELOW the range; token1-only cannot open here"

\* C8: the liquidity computation of Raydium handle_open, given a range
\* entirely above the current price (current sqrt price at or below the
\* range bottom) and a nonzero budget for token 1 only, fails with the
\* "needs the other token" condition; no liquidity value, zero or positive,
\* comes out of it: no open instruction is built and nothing is submitted.
C8_QuoterNeedsOtherToken ==
    RangedOpen /\ opts.dex = "raydium" /\ Token1Only /\ PriceAtOrBelowBottom =>
        /\ res.status = "error"
        /\ ~HasIx("OpenPositionV2")
        /\ NothingSubmitted
        /\ res.err # "computed liquidity is zero"
        /\ RaydiumReachesQuoter => res.err = NeedsOtherToken

C8_Witness ==
    /\ RaydiumReachesQuoter /\ Token1Only /\ PriceAtOrBelowBottom
    /\ chain.sqrt_price_x64 < tick_index_to_sqrt_price(Unwrap(opts.lower))
    /\ res.status = "error" /\ res.err = NeedsOtherToken

\* The liquidity of every open/deposit instruction of every transaction
\* handed to the submission boundary.
SubmittedLiquidities ==
    UNION {{e.tx.ixs[i].liquidity :
               i \in {j \in 1 .. Len(e.tx.ixs) :
                         e.tx.ixs[j].kind \in {"OpenPositionV2", "IncreaseLiquidityV2"}}} :
           e \in {Submissions[n] : n \in 1 .. Len(Submissions)}}

\* C9 as stated: no open submits a deposit/open instruction whose liquidity
\* is zero, on any open path (Raydium handle_open, Orca handle_open,
\* run_open).
C9_Original ==
    Done /\ IsOpenOp /\ opts.dex \in {"raydium", "orca", "run_open"} =>
        (Submissions # <<>> => 0 \notin SubmittedLiquidities)

\* The part of C9 that the code has: Raydium handle_open fails with
\* "computed liquidity is zero" before building the instruction.
C9_RaydiumPart ==
    Done /\ IsOpenOp /\ opts.dex = "raydium" =>
        (Submissions # <<>> => 0 \notin SubmittedLiquidities)

\* run_open sent an open instruction whose liquidity field is zero.
C9_RunOpenSendsZero ==
    /\ Done /\ opts.dex = "run_open" /\ res.status = "ok" /\ Len(res.sent) = 1
    /\ res.sent[1].ixs[1].kind = "OpenPositionV2"
    /\ res.sent[1].ixs[1].liquidity = 0

\* C10: with both budgets nonzero, Orca handle_open uses the token-0-driven
\* quote if its token_max_b <= amount1, otherwise the token-1-driven quote
\* if its token_max_a <= amount0, otherwise it fails; so the quote in the
\* deposit instruction has token_max_a <= amount0 and token_max_b <= amount1.
C10_OrcaQuoteSelection ==
    RangedOpen /\ opts.dex = "orca" /\ opts.amount0 > 0 /\ opts.amount1 > 0
    /\ HasIx("OpenPosition") =>
        LET lower == Unwrap(opts.lower)
            upper == Unwrap(opts.upper)
            quote_a == increase_liquidity_quote_a(opts.amount0, chain.sqrt_price_x64, lower, upper)
            quote_b == increase_liquidity_quote_b(opts.amount1, chain.sqrt_price_x64, lower, upper)
            Uses(q) == /\ HasIx("IncreaseLiquidityV2")
                       /\ TheIx("IncreaseLiquidityV2").liquidity = q.liquidity_delta
                       /\ TheIx("IncreaseLiquidityV2").token_max_a = q.token_max_a
                       /\ TheIx("IncreaseLiquidityV2").token_max_b = q.token_max_b
        IN  /\ IF quote_a.token_max_b <= opts.amount1 THEN Uses(quote_a)
               ELSE IF quote_b.token_max_a <= opts.amount0 THEN Uses(quote_b)
               ELSE res.status = "error" /\ ~HasIx("IncreaseLiquidityV2")
            /\ HasIx("IncreaseLiquidityV2") =>
                   /\ TheIx("IncreaseLiquidityV2").token_max_a <= opts.amount0
                   /\ TheIx("IncreaseLiquidityV2").token_max_b <= opts.amount1

\* An Orca open with both budgets where the token-0-driven quote asks for
\* more token 1 than budgeted and the token-1-driven quote is used.
C10_Witness ==
    /\ RangedOpen /\ opts.dex = "orca" /\ opts.amount0 > 0 /\ opts.amount1 > 0
    /\ res.status = "ok" /\ HasIx("IncreaseLiquidityV2")
    /\ increase_liquidity_quote_a(opts.amount0, chain.sqrt_price_x64,
                                  Unwrap(opts.lower), Unwrap(opts.upper)).token_max_b
          > opts.amount1
    /\ TheIx("IncreaseLiquidityV2").liquidity > 0
    /\ TheIx("IncreaseLiquidityV2").token_max_b > 0

-----------------------------------------------------------------------------
(* Account checks, simulation and submission *)

\* The instructions that carry out the operation itself, as opposed to the
\* compute-budget, wrap, account-creation and unwrap instructions around it.
CoreKinds ==
    {"OpenPositionV2", "DecreaseLiquidityV2", "ClosePosition", "Swap",
     "OpenPosition", "IncreaseLiquidityV2", "CollectFeesV2", "SwapV2",
     "InitializePosition", "AddLiquidity", "RemoveAllLiquidity",
     "ClosePositionIfEmpty"}
IsCore(ix) == ix.kind \in CoreKinds
CoreIxs == SelectSeq(res.ixs, IsCore)

DexRun == Done /\ opts.dex \in {"raydium", "orca", "meteora"}
Reads(what) == SelectSeq(res.log, LAMBDA e : e.ev = "read" /\ e.what = what)
PoolFetched == Reads("get_account:pool") # <<>>
PositionFetched == Reads("get_account:position") # <<>>

\* A fetched account that is not owned by the backend's program or does not
\* have the shape of the backend's record.
ForeignPoolFetched == PoolFetched /\ ~(chain.pool_owner_ok /\ chain.pool_decodes)
ForeignPositionFetched == PositionFetched /\ ~(chain.pos_owner_ok /\ chain.pos_decodes)

\* C11 as stated: in every operation of every backend, when the fetched pool
\* or position account is not owned by the backend's program or does not
\* decode as the backend's record, the operation fails and no core
\* instruction has been built.
C11_Original ==
    (DexRun /\ (ForeignPoolFetched \/ ForeignPositionFetched))
        => (res.status = "error" /\ CoreIxs = <<>> /\ res.sent = <<>>)

\* C11, the case that fails: a Meteora operation whose pool account is
\* owned by another program but decodes as an LbPair is carried through and
\* its transaction is sent.
C11_MeteoraAcceptsForeignPool ==
    /\ Done /\ opts.dex = "meteora"
    /\ PoolFetched /\ ~chain.pool_owner_ok /\ chain.pool_decodes
    /\ res.status = "ok" /\ CoreIxs # <<>> /\ res.sent # <<>>

\* The positions in the log of the broadcasts and of the simulations.
SendAt == {i \in DOMAIN res.log : res.log[i].ev = "send"}
SimulateAt == {i \in DOMAIN res.log : res.log[i].ev = "simulate"}

\* A simulation that reported no error is one the invocation went on from:
\* it is not the last event of a failed simulate_and_send.
SimulatedOk(j) ==
    /\ j \in SimulateAt
    /\ ~(j = Len(res.log) /\ res.err = "simulation failed")

\* C12 as stated: every transaction that is broadcast was simulated without
\* error, as the same signed transaction, earlier in the same invocation.
C12_Original ==
    Done => \A i \in SendAt :
                \E j \in 1 .. (i - 1) : SimulatedOk(j) /\ res.log[j].tx = res.log[i].tx

\* C12 on the paths that go through simulate_and_send (the three backends):
\* each broadcast directly follows the successful simulation of the same
\* transaction.
C12_DexPart ==
    DexRun => \A i \in SendAt :
                  i > 1 /\ SimulatedOk(i - 1) /\ res.log[i - 1].tx = res.log[i].tx

\* C12, the case that fails: run_open broadcasts a transaction that was
\* never simulated.
C12_RunOpenSendsUnsimulated ==
    /\ Done /\ opts.dex = "run_open"
    /\ res.sent # <<>> /\ SendAt # {} /\ SimulateAt = {}

\* The answer of the node to the simulation logged at position j: the n-th
\* simulation of the invocation is answered by chain.sim_ok[n].
SimulationFails(j) ==
    j \in SimulateAt /\ ~chain.sim_ok[Cardinality({k \in SimulateAt : k <= j})]

\* C13: when the simulation of a transaction reports an error, the
\* invocation ends in failure with that simulation as its last node
\* interaction: the transaction is not sent and nothing is retried.
C13_FailedSimulationEndsRun ==
    Done => \A j \in DOMAIN res.log :
                SimulationFails(j) =>
                    /\ res.status = "error"
                    /\ res.err = "simulation failed"
                    /\ j = Len(res.log)
                    /\ \A k \in DOMAIN res.sent : res.sent[k] # res.log[j].tx

C13_Witness ==
    /\ Done
    /\ \E j \in DOMAIN res.log : SimulationFails(j)
    /\ res.status = "error"

\* C14 as stated: an invocation hands at most one transaction to the
\* submission boundary, that transaction is the complete plan, and no
\* invocation ends in failure after a transaction has already been sent.
C14_Original ==
    Done =>
        /\ Cardinality(SimulateAt) <= 1
        /\ Len(res.sent) <= 1
        /\ \A k \in DOMAIN res.sent : res.sent[k].ixs = res.ixs
        /\ (res.sent # <<>> => res.status = "ok")

\* C14 outside Raydium's --unwrap-sol: one submission at most, carrying the
\* whole plan, and a sent transaction means success.
C14_SingleSubmissionPart ==
    (Done /\ ~(opts.dex = "raydium" /\ opts.unwrap_sol)) =>
        /\ Cardinality(SimulateAt) <= 1
        /\ Len(res.sent) <= 1
        /\ \A k \in DOMAIN res.sent : res.sent[k].ixs = res.ixs
        /\ (res.sent # <<>> => res.status = "ok")

\* C14, the case that fails: Raydium with --unwrap-sol sends the operation's
\* transaction, then submits the unwrap as a second transaction, whose
\* simulation fails: the invocation ends in failure with the first
\* transaction already sent.
C14_RaydiumSecondSubmissionFails ==
    /\ Done /\ opts.dex = "raydium" /\ opts.unwrap_sol
    /\ Cardinality(SimulateAt) = 2
    /\ Len(res.sent) = 1
    /\ res.status = "error"
    /\ res.log[Len(res.log)].tx.ixs = <<build_unwrap_sol_ix(PAYER)>>

\* A transaction that opens with the compute-unit-limit directive followed
\* by the compute-unit-price directive.
BudgetFirst(tx) ==
    /\ Len(tx.ixs) >= 2
    /\ tx.ixs[1].kind = "SetComputeUnitLimit"
    /\ tx.ixs[2].kind = "SetComputeUnitPrice"
    /\ \A k \in 3 .. Len(tx.ixs) :
          tx.ixs[k].kind \notin {"SetComputeUnitLimit", "SetComputeUnitPrice"}

\* C15 as stated: every transaction submitted by any code path opens with
\* the compute-unit-limit directive followed by the compute-unit-price
\* directive, ahead of all other instructions.
C15_Original ==
    Done => \A i \in DOMAIN Submissions : BudgetFirst(Submissions[i].tx)

\* C15 for the first transaction of a backend invocation, which is the plan
\* that run() started with the two compute-budget instructions.
C15_FirstDexTransaction ==
    (DexRun /\ Submissions # <<>>) =>
        BudgetFirst(Submissions[1].tx) /\ Submissions[1].tx.ixs = res.ixs

\* C15, the cases that fail: the transaction sent by run_open holds the
\* open instruction alone, and Raydium's separate unwrap transaction holds
\* the close-account instruction alone.
C15_SentWithoutBudget ==
    /\ Done
    /\ \E k \in DOMAIN res.sent :
          /\ Len(res.sent[k].ixs) = 1
          /\ res.sent[k].ixs[1].kind \in {"OpenPositionV2", "CloseAccount"}

-----------------------------------------------------------------------------
(* Validation and the order of reads *)

OpenRangeGiven == IsSome(opts.lower) /\ IsSome(opts.upper)

\* The input-validation failures named by the error taxonomy.
OpenInputInvalid ==
    /\ IsOpenOp /\ ValidKey(opts.pool)
    /\ \/ ~OpenRangeGiven
       \/ Unwrap(opts.upper) <= Unwrap(opts.lower)
       \/ opts.amount0 = 0 /\ opts.amount1 = 0
SwapInputInvalid == IsSwapOp /\ opts.swap_amount_in = 0
InputInvalid == OpenInputInvalid \/ SwapInputInvalid

\* C16 as stated: an input-validation failure aborts the invocation before
\* any network read has been issued, on every backend and with every flag
\* combination, --wrap-sol > 0 included.
C16_Original ==
    (DexRun /\ InputInvalid) => (res.status = "error" /\ res.log = <<>>)

\* C16 where it holds: without --wrap-sol, an invalid input (for Meteora an
\* upper bin below the lower one; equal bins are a valid one-bin range
\* there) ends the invocation in an error with no node interaction at all.
C16_NoWrapPart ==
    (/\ DexRun /\ InputInvalid /\ opts.wrap_sol = 0
     /\ ~(opts.dex = "meteora" /\ IsOpenOp /\ OpenRangeGiven
          /\ Unwrap(opts.upper) = Unwrap(opts.lower)
          /\ (opts.amount0 > 0 \/ opts.amount1 > 0)))
        => (res.status = "error" /\ res.log = <<>>)

\* C16, the case that fails: with --wrap-sol > 0 the WSOL account has been
\* read from the node by the time the invalid open or swap input is
\* rejected.
C16_WrapReadsBeforeValidation ==
    /\ DexRun /\ OpenInputInvalid /\ opts.wrap_sol > 0
    /\ res.status = "error"
    /\ res.log = <<[ev |-> "read", what |-> "get_account:wsol_ata"]>>

\* The tick spacing the open path works with: the pool account's, or for
\* run_open the pool snapshot's.
PoolTickSpacing ==
    IF opts.dex = "run_open" THEN snapshot_tick_spacing(chain) ELSE chain.tick_spacing

\* An open on a tick-based path whose range passes the range validation but
\* has a bound that is no multiple of the tick spacing.
TickBasedOpen == Done /\ opts.dex \in {"raydium", "orca", "run_open"} /\ IsOpenOp
UnalignedOpen ==
    /\ TickBasedOpen /\ ValidKey(opts.pool) /\ OpenRangeGiven
    /\ \/ RustRem(Unwrap(opts.lower), PoolTickSpacing) # 0
       \/ RustRem(Unwrap(opts.upper), PoolTickSpacing) # 0

\* C17 as stated: on every tick-based open path a bound that is no multiple
\* of the tick spacing is rejected before any address derivation and any
\* network call, and no transaction is submitted.
C17_Original ==
    UnalignedOpen =>
        /\ res.status = "error"
        /\ res.log = <<>>
        /\ GroupIxs = <<>>
        /\ NothingSubmitted

\* C17 on the two paths that check (Raydium handle_open and run_open): an
\* unaligned bound ends the invocation in an error with no instruction
\* naming a tick array and nothing submitted; the pool has been read first
\* unless a snapshot was cached.
C17_CheckedPaths ==
    (UnalignedOpen /\ opts.dex \in {"raydium", "run_open"}) =>
        /\ res.status = "error"
        /\ GroupIxs = <<>> /\ CoreIxs = <<>>
        /\ NothingSubmitted
        /\ (opts.dex = "run_open" /\ chain.cache_exists) => res.log = <<>>

\* C17, the case that fails: Orca handle_open has no such check; a range
\* with an unaligned bound goes into OpenPosition and the tick-array
\* addresses, and the transaction is submitted.
C17_OrcaSubmitsUnaligned ==
    /\ UnalignedOpen /\ opts.dex = "orca"
    /\ HasIx("OpenPosition") /\ HasIx("IncreaseLiquidityV2")
    /\ RustRem(TheIx("OpenPosition").tick_lower_index, chain.tick_spacing) # 0
    /\ Submissions # <<>> /\ res.sent # <<>>

-----------------------------------------------------------------------------
(* ensure_ata on its own: a plan under construction, one token account, one
   answer of the node. *)

\* Plans as run() and the handlers leave them before ensure_ata is called.
AtaPlans ==
    { <<>>,
      ComputeBudgetIxs(DefaultOpts),
      ComputeBudgetIxs(DefaultOpts) \o build_wrap_sol_ixs(PAYER, 5, DefaultChain),
      ComputeBudgetIxs(DefaultOpts)
          \o <<create_associated_token_account(PAYER, "mint0", SPL_TOKEN)>> }
AtaOwners == {PAYER, "other_owner"}
AtaMints == {"mint0", "mint1", WSOL_MINT}
AtaAnswers == {<<>>, Some(TRUE), Some(FALSE)}

CallEnsureAta ==
    /\ call = NoCall
    /\ \E plan \in AtaPlans, owner \in AtaOwners, mint \in AtaMints,
          token_program \in {SPL_TOKEN, SPL_TOKEN_2022}, answer \in AtaAnswers :
        /\ call' = [fn |-> "ensure_ata", r |-> Begin(plan), owner |-> owner,
                    mint |-> mint, token_program |-> token_program,
                    answer |-> answer]
        /\ ret' = [fn |-> "ensure_ata",
                   r |-> ensure_ata(Begin(plan), owner, mint, token_program, answer)]
    /\ UNCHANGED <<overflow_checks, runvars>>

NextAta == CallEnsureAta \/ ReturnMath

SpecAta == InitMath /\ [][NextAta]_vars

\* C18: ensure_ata leaves the instructions already in the plan as they are;
\* it appends exactly one instruction, the creation of the token account of
\* (owner, mint, token program), when the account does not exist, nothing
\* when it exists, and nothing when the existence read fails, in which case
\* it returns an error.
C18_EnsureAtaFrame ==
    call.fn = "ensure_ata" =>
        LET before == call.r.ixs
            after == ret.r.ixs
        IN  /\ Len(after) >= Len(before)
            /\ SubSeq(after, 1, Len(before)) = before
            /\ call.answer = Some(FALSE) =>
                  /\ Len(after) = Len(before) + 1
                  /\ after[Len(after)].kind = "CreateAssociatedTokenAccount"
                  /\ after[Len(after)].ata =
                        get_associated_token_address(call.owner, call.mint,
                                                     call.token_program)
                  /\ ret.r.status = "run"
            /\ call.answer = Some(TRUE) => (after = before /\ ret.r.status = "run")
            /\ call.answer = <<>> => (after = before /\ ret.r.status = "error")

C18_Witness ==
    /\ call.fn = "ensure_ata"
    /\ call.answer = Some(FALSE)
    /\ Len(call.r.ixs) >= 2
    /\ Len(ret.r.ixs) = Len(call.r.ixs) + 1

-----------------------------------------------------------------------------
(* Token accounts and the close instruction *)

\* The fields of the core instructions that name a token account of the
\* user for one of the pool's mints.
UserTokenFields ==
    {"token_account_0", "token_account_1",
     "recipient_token_account_0", "recipient_token_account_1",
     "input_token_account", "output_token_account",
     "user_token_x", "user_token_y", "user_token_in", "user_token_out",
     "token_owner_account_a", "token_owner_account_b"}
UserTokenAccounts(ix) == {ix[f] : f \in UserTokenFields \cap DOMAIN ix}

\* Whether the token account is there, as the node would report it.
ExistsOnChain(ata) ==
    IF ata.mint = chain.mint0 THEN chain.ata0_exists ELSE chain.ata1_exists

\* The invocation has read the account from the node and found it.
ObservedToExist(ata) ==
    /\ chain.ata_read_ok /\ ExistsOnChain(ata)
    /\ \E i \in DOMAIN res.log :
          /\ res.log[i].ev = "read" /\ "ata" \in DOMAIN res.log[i]
          /\ res.log[i].ata = ata

CreatedBefore(tx, k, ata) ==
    \E j \in 1 .. (k - 1) :
        tx.ixs[j].kind = "CreateAssociatedTokenAccount" /\ tx.ixs[j].ata = ata

\* Every user token account named by a core instruction of the transaction
\* was observed to exist or is created earlier in the same transaction.
TokenAccountsEnsured(tx) ==
    \A k \in DOMAIN tx.ixs :
        IsCore(tx.ixs[k]) =>
            \A ata \in UserTokenAccounts(tx.ixs[k]) :
                ObservedToExist(ata) \/ CreatedBefore(tx, k, ata)

\* C19 as stated: in every submitted plan, on every code path including
\* run_open, each user token account referenced by the core instruction was
\* observed to exist in the same invocation or is created earlier in the
\* plan.
C19_Original ==
    Done => \A i \in DOMAIN Submissions : TokenAccountsEnsured(Submissions[i].tx)

\* C19 for open, remove and swap of the three backends.
C19_DexPart ==
    DexRun => \A i \in DOMAIN Submissions : TokenAccountsEnsured(Submissions[i].tx)

\* C19, the case that fails: run_open sends an open instruction naming a
\* user token account that does not exist, was never looked up and is not
\* created by the transaction.
C19_RunOpenSendsWithoutAccount ==
    /\ Done /\ opts.dex = "run_open" /\ res.sent # <<>>
    /\ \E ata \in UserTokenAccounts(res.sent[1].ixs[1]) :
          /\ ~ExistsOnChain(ata)
          /\ ~ObservedToExist(ata)
          /\ ~CreatedBefore(res.sent[1], 1, ata)
    /\ \A i \in DOMAIN res.log : "ata" \notin DOMAIN res.log[i]

\* The instructions that close a position.
CloseKinds == {"ClosePosition", "ClosePositionIfEmpty"}
PlanCloses == \E k \in DOMAIN res.ixs : res.ixs[k].kind \in CloseKinds
RemoveBuilt ==
    \E k \in DOMAIN res.ixs :
        res.ixs[k].kind \in {"DecreaseLiquidityV2", "RemoveAllLiquidity"}

\* C20 as stated: a remove plan contains a position-close instruction only
\* when --close was given, on every backend.
C20_Original ==
    (DexRun /\ IsRemoveOp /\ PlanCloses) => opts.close

\* C20 for Raydium and Meteora: a remove plan that got as far as the remove
\* instruction closes the position exactly when --close was given.
C20_RaydiumMeteoraPart ==
    (DexRun /\ IsRemoveOp /\ opts.dex \in {"raydium", "meteora"}) =>
        /\ PlanCloses => (opts.close /\ RemoveBuilt)
        /\ (RemoveBuilt /\ opts.close) => PlanCloses

\* C20, the case that fails: an Orca remove without --close sends a
\* transaction that closes the position.
C20_OrcaClosesUnasked ==
    /\ Done /\ opts.dex = "orca" /\ IsRemoveOp /\ ~opts.close
    /\ res.sent # <<>>
    /\ \E k \in DOMAIN res.sent[1].ixs : res.sent[1].ixs[k].kind = "ClosePosition"

-----------------------------------------------------------------------------
(* The shape of remove and swap plans *)

WithdrawKinds == {"DecreaseLiquidityV2", "RemoveAllLiquidity"}
KindAt(tx, kinds) == {k \in DOMAIN tx.ixs : tx.ixs[k].kind \in kinds}

\* The plan of a remove as it is first handed to the submission boundary.
RemoveSubmitted == DexRun /\ IsRemoveOp /\ Submissions # <<>>

\* Exactly one withdrawal; a fee collection only after it, before any close,
\* and only for a position that held liquidity.
RemovePlanShape(tx) ==
    /\ Cardinality(KindAt(tx, WithdrawKinds)) = 1
    /\ \A f \in KindAt(tx, {"CollectFeesV2"}) :
          /\ chain.pos_liquidity > 0
          /\ \A w \in KindAt(tx, WithdrawKinds) : w < f
          /\ \A cl \in KindAt(tx, CloseKinds) : f < cl

\* C21 as stated: every remove plan that reaches submission contains
\* exactly one liquidity-withdrawal instruction, and a fee-collection
\* instruction, when present, follows the withdrawal, precedes any close and
\* is there only for a position that held liquidity.
C21_Original == RemoveSubmitted => RemovePlanShape(Submissions[1].tx)

\* C21 for Raydium and Meteora, and for Orca positions holding liquidity.
C21_LiquidPart ==
    (RemoveSubmitted /\ (opts.dex # "orca" \/ chain.pos_liquidity > 0))
        => RemovePlanShape(Submissions[1].tx)

\* C21, the case that fails: an Orca remove of a position without liquidity
\* submits a plan with no withdrawal at all, only the close instruction.
C21_OrcaSubmitsCloseOnly ==
    /\ RemoveSubmitted /\ opts.dex = "orca" /\ chain.pos_liquidity = 0
    /\ KindAt(Submissions[1].tx, WithdrawKinds) = {}
    /\ KindAt(Submissions[1].tx, {"ClosePosition"}) # {}
    /\ res.sent # <<>>

SwapKinds == {"Swap", "SwapV2"}
SwapIxs == SelectSeq(res.ixs, LAMBDA ix : ix.kind \in SwapKinds)
SwapBuilt == DexRun /\ IsSwapOp /\ SwapIxs # <<>>
GroupSet(ix) == {ix.groups[i] : i \in DOMAIN ix.groups}

\* The address of the range group holding the pool's current index shifted
\* by n groups (n = 0: the current group), per backend.
SwapGroupAddress(n) ==
    IF opts.dex = "meteora"
    THEN derive_bin_array_address(LB_CLMM_ID, opts.swap_pool,
                                  bin_array_index_for_bin_id(chain.active_id) + n)
    ELSE IF opts.dex = "orca"
    THEN get_tick_array_address(opts.swap_pool,
            get_tick_array_start_tick_index(chain.tick_current, chain.tick_spacing)
                + n * chain.tick_spacing * ORCA_TICK_ARRAY_SIZE)
    ELSE derive_tick_array_pda(opts.swap_pool,
            tick_array_start_index(chain.tick_current, chain.tick_spacing).val
                + n * chain.tick_spacing * TICK_ARRAY_SIZE,
            CLMM_PROGRAM_ID)

\* Token 0 -> token 1 moves the price down, towards the lower groups.
SwapDirection == IF opts.swap_a_to_b THEN -1 ELSE 1

SwapPlanShape ==
    /\ Len(SwapIxs) = 1
    /\ SwapGroupAddress(0) \in GroupSet(SwapIxs[1])
    /\ SwapGroupAddress(SwapDirection) \in GroupSet(SwapIxs[1])

\* C22 as stated: every swap plan holds exactly one swap instruction, and
\* it names the range group of the pool's current index and at least the
\* next group in the swap direction, on all three backends.
C22_Original == SwapBuilt => SwapPlanShape

\* C22 for Orca and Meteora, both directions.
C22_OrcaMeteoraPart == (SwapBuilt /\ opts.dex # "raydium") => SwapPlanShape

\* C22, the case that fails: the Raydium swap instruction names the tick
\* array of the current tick and no other, and is sent.
C22_RaydiumSingleGroup ==
    /\ SwapBuilt /\ opts.dex = "raydium" /\ res.sent # <<>>
    /\ Len(SwapIxs) = 1
    /\ GroupSet(SwapIxs[1]) = {SwapGroupAddress(0)}

\* The stage of an instruction in a plan: compute budget, wrap and account
\* creation, core operation, unwrap.
PlanStage(ix) ==
    IF ix.kind \in {"SetComputeUnitLimit", "SetComputeUnitPrice"} THEN 1
    ELSE IF ix.kind \in {"CreateAssociatedTokenAccount", "SystemTransfer", "SyncNative"} THEN 2
    ELSE IF ix.kind \in CoreKinds THEN 3
    ELSE 4

StagesInOrder(tx) ==
    \A j \in DOMAIN tx.ixs, k \in DOMAIN tx.ixs :
        j < k => PlanStage(tx.ixs[j]) <= PlanStage(tx.ixs[k])

\* An operation with --unwrap-sol that got as far as a submission.
UnwrapWithOperation ==
    /\ DexRun /\ opts.unwrap_sol /\ (IsSwapOp \/ IsRemoveOp \/ IsOpenOp)
    /\ Submissions # <<>>

\* The unwrap instruction closes the plan of the one transaction submitted.
UnwrapInSamePlan ==
    LET tx == Submissions[1].tx
    IN  /\ Cardinality(SimulateAt) = 1
        /\ KindAt(tx, CoreKinds) # {}
        /\ KindAt(tx, {"CloseAccount"}) = {Len(tx.ixs)}
        /\ StagesInOrder(tx)

\* C23 as stated: when unwrapping is requested together with an open,
\* remove or swap, the unwrap instruction is in the same plan, after the
\* core instructions and before the single submission, on every backend.
C23_Original == UnwrapWithOperation => UnwrapInSamePlan

\* C23 for the remove and swap of Orca and Meteora, whose plan run()
\* completes and submits.
C23_RunSubmitsPart ==
    (UnwrapWithOperation /\ opts.dex \in {"orca", "meteora"} /\ ~IsOpenOp)
        => UnwrapInSamePlan

\* C23, a case that fails: an Orca or Meteora open with --unwrap-sol is
\* sent and reported as a success with no unwrap instruction anywhere.
C23_OpenDropsUnwrap ==
    /\ UnwrapWithOperation /\ IsOpenOp /\ opts.dex \in {"orca", "meteora"}
    /\ res.status = "ok" /\ Len(res.sent) = 1
    /\ KindAt(res.sent[1], {"CloseAccount"}) = {}
    /\ Cardinality(SimulateAt) = 1

-----------------------------------------------------------------------------
(* Pool state, addresses, priorities *)

\* An invocation that built a core instruction from pool state.
BuiltFromPool == Done /\ CoreIxs # <<>>

\* C24 as stated: the pool state used to build the instructions of an
\* invocation was read from the chain during that invocation.
C24_Original == BuiltFromPool => PoolFetched

\* C24 for the three backends, and for run_open when no snapshot is cached.
C24_FreshPart ==
    (BuiltFromPool /\ (opts.dex # "run_open" \/ ~chain.cache_exists)) => PoolFetched

\* C24, the case that fails: run_open finds a cached snapshot, never reads
\* the pool account, and sends an open whose ticks were validated against
\* the snapshot's tick spacing, which is not the pool's.
C24_RunOpenUsesSnapshot ==
    /\ Done /\ opts.dex = "run_open" /\ chain.cache_exists
    /\ chain.cache_tick_spacing # chain.tick_spacing
    /\ ~PoolFetched
    /\ res.sent # <<>>
    /\ RustRem(res.sent[1].ixs[1].tick_lower_index, chain.tick_spacing) # 0

\* C25 as stated: for the same pool, start index and program,
\* derive_tick_array_pda (raydium.rs) and tick_array_pda (open_cmd.rs)
\* produce the same seed bytes and therefore the same address.
C25_Original ==
    call.fn = "tick_array_pda" =>
        (ret.raydium.seeds = ret.open_cmd.seeds /\ ret.raydium = ret.open_cmd)

\* C25, what holds instead: the two addresses coincide exactly when the
\* four bytes of the start index read the same in both directions, which
\* among tick-array starts is the case for 0.
C25_SameOnlyForSymmetricBytes ==
    call.fn = "tick_array_pda" =>
        /\ (ret.raydium = ret.open_cmd)
              <=> (to_be_bytes(call.start, 4) = to_le_bytes(call.start, 4))
        /\ (ret.raydium = ret.open_cmd) <=> (call.start = 0)

\* C25, the case that fails: for start index 60 the seed ends in
\* 0, 0, 0, 60 in raydium.rs and in 60, 0, 0, 0 in open_cmd.rs.
C25_DifferentAddresses ==
    /\ call.fn = "tick_array_pda" /\ call.start = 60
    /\ ret.raydium.seeds = <<"tick_array", call.pool, 0, 0, 0, 60>>
    /\ ret.open_cmd.seeds = <<"tick_array", call.pool, 60, 0, 0, 0>>
    /\ ret.raydium # ret.open_cmd

OpenKinds ==
    {"OpenPositionV2", "OpenPosition", "IncreaseLiquidityV2",
     "InitializePosition", "AddLiquidity"}
RemoveKinds == WithdrawKinds \cup CloseKinds \cup {"CollectFeesV2"}

\* Every core instruction built or submitted in the invocation.
AllCoreKinds ==
    {res.ixs[k].kind : k \in {j \in DOMAIN res.ixs : IsCore(res.ixs[j])}}
    \cup UNION {{Submissions[i].tx.ixs[k].kind :
                    k \in {j \in DOMAIN Submissions[i].tx.ixs :
                              IsCore(Submissions[i].tx.ixs[j])}} :
                i \in DOMAIN Submissions}

SeveralOperations ==
    Cardinality({f \in {"swap_pool", "remove_position", "pool"} : opts[f] # None}) >= 2

\* C26: with --swap-pool only a swap is built, whatever else is given;
\* without it and with --remove-position only the remove is built, even if
\* --pool is given; the same on the three backends.
C26_OperationPriority ==
    DexRun =>
        /\ opts.swap_pool # None => AllCoreKinds \subseteq SwapKinds
        /\ (opts.swap_pool = None /\ opts.remove_position # None)
              => AllCoreKinds \subseteq RemoveKinds

C26_Witness ==
    /\ DexRun /\ SeveralOperations
    /\ opts.swap_pool # None /\ opts.remove_position # None /\ opts.pool # None
    /\ AllCoreKinds # {} /\ AllCoreKinds \subseteq SwapKinds
    /\ res.sent # <<>>

\* A swap instruction of a backend that encodes a price limit.
LimitEncoded == SwapBuilt /\ opts.dex \in {"orca", "raydium"}
ProtocolLimit == IF opts.swap_a_to_b THEN MIN_SQRT_PRICE ELSE MAX_SQRT_PRICE

\* C27 as stated: with --swap-sqrt-price-limit 0 the swap instruction of
\* Orca and of Raydium carries the protocol's minimum sqrt price for a
\* token0 -> token1 swap and its maximum for token1 -> token0; a nonzero
\* value is passed through unchanged.
C27_Original ==
    LimitEncoded =>
        SwapIxs[1].sqrt_price_limit =
            IF opts.swap_sqrt_price_limit = 0 THEN ProtocolLimit
            ELSE opts.swap_sqrt_price_limit

\* C27, amended: Orca substitutes the protocol's minimum or maximum for a
\* limit of 0 and passes a nonzero limit through; Raydium passes the option
\* through unchanged in every case, 0 included.
C27_LimitPerBackend ==
    LimitEncoded =>
        /\ opts.dex = "orca" =>
              SwapIxs[1].sqrt_price_limit =
                  IF opts.swap_sqrt_price_limit = 0 THEN ProtocolLimit
                  ELSE opts.swap_sqrt_price_limit
        /\ opts.dex = "raydium" =>
              SwapIxs[1].sqrt_price_limit = opts.swap_sqrt_price_limit

C27_Witness ==
    /\ LimitEncoded /\ opts.dex = "orca" /\ res.sent # <<>>
    /\ opts.swap_sqrt_price_limit = 0 /\ ~opts.swap_a_to_b
    /\ SwapIxs[1].sqrt_price_limit = MAX_SQRT_PRICE

-----------------------------------------------------------------------------
(* Account creation, idle invocations, distribution *)

CreationsAt(ixs) == {k \in DOMAIN ixs : ixs[k].kind = "CreateAssociatedTokenAccount"}
NoDuplicateCreation(ixs) ==
    \A j \in CreationsAt(ixs), k \in CreationsAt(ixs) :
        j # k => ixs[j].ata # ixs[k].ata

\* C28 as stated: no plan and no submitted transaction contains two
\* account-creation instructions for the same token account.
C28_Original ==
    Done =>
        /\ NoDuplicateCreation(res.ixs)
        /\ \A i \in DOMAIN Submissions : NoDuplicateCreation(Submissions[i].tx.ixs)

\* C28 where it holds: when nothing is wrapped, or the WSOL account exists,
\* or wrapped SOL is not one of the pool's tokens; and, for a Raydium
\* remove, when no reward is paid in a token of the pool.
C28_DistinctAccountsPart ==
    (/\ Done
     /\ (opts.wrap_sol = 0 \/ chain.wsol_ata_exists \/ chain.mint0 # WSOL_MINT)
     /\ ~(opts.dex = "raydium" /\ IsRemoveOp /\ chain.rewards > 0
          /\ chain.reward_mint = chain.mint1))
        => /\ NoDuplicateCreation(res.ixs)
           /\ \A i \in DOMAIN Submissions : NoDuplicateCreation(Submissions[i].tx.ixs)

\* C28, the case that fails: --wrap-sol on a pool whose token 0 is wrapped
\* SOL, the WSOL account missing: the wrap step and the per-mint existence
\* check each schedule its creation, and the plan is submitted with both.
C28_WsolCreatedTwice ==
    /\ DexRun /\ opts.wrap_sol > 0 /\ chain.mint0 = WSOL_MINT /\ ~chain.wsol_ata_exists
    /\ Submissions # <<>>
    /\ \E j \in CreationsAt(Submissions[1].tx.ixs), k \in CreationsAt(Submissions[1].tx.ixs) :
          /\ j < k
          /\ Submissions[1].tx.ixs[j] = Submissions[1].tx.ixs[k]
          /\ Submissions[1].tx.ixs[j].ata.mint = WSOL_MINT

\* C28, a second failing case: a Raydium remove whose reward is paid in the
\* pool's token 1, the user's token-1 account missing: the per-mint check
\* and the reward loop each schedule its creation.
C28_RewardAccountCreatedTwice ==
    /\ Done /\ opts.dex = "raydium" /\ IsRemoveOp /\ opts.wrap_sol = 0
    /\ chain.reward_mint = chain.mint1 /\ ~chain.ata1_exists
    /\ Submissions # <<>>
    /\ ~NoDuplicateCreation(Submissions[1].tx.ixs)

\* An invocation that names no operation and asks for no wrap or unwrap.
NothingRequested ==
    /\ DexRun
    /\ opts.swap_pool = None /\ opts.remove_position = None /\ opts.pool = None
    /\ opts.wrap_sol = 0 /\ ~opts.unwrap_sol

\* C29 as stated: such an invocation submits nothing and returns an error
\* on every backend.
C29_Original == NothingRequested => (NothingSubmitted /\ res.status = "error")

\* C29 for Raydium and Meteora; on Orca nothing is submitted either.
C29_RaydiumMeteoraPart ==
    NothingRequested =>
        /\ NothingSubmitted /\ res.log = <<>>
        /\ opts.dex \in {"raydium", "meteora"} => res.status = "error"

\* C29, the case that fails: Orca returns success having done nothing.
C29_OrcaIdleSuccess ==
    /\ NothingRequested /\ opts.dex = "orca"
    /\ res.status = "ok" /\ NothingSubmitted /\ res.log = <<>>
    /\ Len(res.ixs) = 2

\* The sum of the shares of one token over the bins lo .. hi of a
\* distribution, by halving.
RECURSIVE SumShares(_, _, _, _)
SumShares(dists, field, lo, hi) ==
    IF lo > hi THEN 0
    ELSE IF lo = hi THEN dists[lo][field]
    ELSE LET mid == (lo + hi) \div 2
         IN  SumShares(dists, field, lo, mid) + SumShares(dists, field, mid + 1, hi)

\* The shares of one token, given its budget, over a distribution of the
\* given width.
SharesOfToken(dists, field, budget, width) ==
    LET total == SumShares(dists, field, 1, Len(dists))
    IN  IF budget = 0
        THEN \A i \in DOMAIN dists : dists[i][field] = 0
        ELSE /\ \A i \in DOMAIN dists :
                  dists[i][field] = 10000 \div width /\ dists[i][field] < 65536
             /\ total <= 10000
             /\ (total = 10000) <=> (10000 % width = 0)
             /\ width > 10000 => \A i \in DOMAIN dists : dists[i][field] = 0

MeteoraAdds == Done /\ opts.dex = "meteora" /\ IsOpenOp /\ HasIx("AddLiquidity")

\* C30: in Meteora handle_open, for a range upper >= lower of width
\* upper - lower + 1, every bin of the range gets one entry; for a token
\* with a nonzero budget each entry is floor(10000 / width), which fits
\* u16, the entries sum to at most 10000, to exactly 10000 precisely when
\* width divides 10000, and are all zero when width > 10000; a token with
\* zero budget gets 0 in every bin.  A range whose width leaves i32 builds
\* no distribution.
C30_UniformShares ==
    MeteoraAdds =>
        LET dists == TheIx("AddLiquidity").bin_liquidity_dist
            lower == Unwrap(opts.lower)
            upper == Unwrap(opts.upper)
            width == Len(dists)
        IN  /\ upper >= lower
            /\ upper - lower < I32Max
            /\ width = upper - lower + 1
            /\ TheIx("InitializePosition").width = width
            /\ \A i \in DOMAIN dists : dists[i].bin_id = lower + (i - 1)
            /\ SharesOfToken(dists, "distribution_x", opts.amount0, width)
            /\ SharesOfToken(dists, "distribution_y", opts.amount1, width)

C30_Witness ==
    /\ MeteoraAdds /\ res.sent # <<>>
    /\ Len(TheIx("AddLiquidity").bin_liquidity_dist) = 10001
    /\ opts.amount0 > 0 /\ opts.amount1 = 0
    /\ TheIx("AddLiquidity").bin_liquidity_dist[1].distribution_x = 0

====
